---------------------------- MODULE Spec2Model ----------------------------
(***************************************************************************)
(* A model of the rue compiler back end (crates/rue-codegen) together with *)
(* the front-end check it relies on (crates/rue-semantic):                 *)
(*                                                                         *)
(*   analyze_cst -> Codegen::generate -> Assembler::assemble               *)
(*               -> Assembler::generate_elf -> execution of the image      *)
(*                                                                         *)
(* Three specifications share the definitions:                             *)
(*   SpecAlloc  RegisterAllocator::allocate called on arbitrary VRegs      *)
(*   SpecAsm    Assembler::assemble, one instruction per step, on          *)
(*              arbitrary instruction sequences                            *)
(*   Spec       compile_to_executable on whole programs, followed by the   *)
(*              execution of the emitted code                              *)
(***************************************************************************)
EXTENDS Integers, Sequences, FiniteSets, TLC

VARIABLES
    prog,       \* index of the program (CstRoot) being compiled
    phase,      \* position in the pipeline
    accepted,   \* result of analyze_cst: <<>> before it ran, <<TRUE/FALSE>> after
    cg,         \* struct Codegen
    ir,         \* Result<Vec<Instruction>, CodegenError> of Codegen::generate
    asm,        \* struct Assembler and the locals of Assembler::assemble
    regalloc,   \* struct RegisterAllocator
    pos,        \* index of the instruction the loop of assemble handles next
    mc,         \* Result<Vec<u8>, CodegenError> of Assembler::assemble
    elf,        \* Result<Vec<u8>, CodegenError> of compile_to_executable
    cpu,        \* the machine that executes the emitted code
    runs,       \* number of the current compile_to_executable run
    prev,       \* result of the previous compile_to_executable run
    iter,       \* iteration order of function_labels in the current run
    hist        \* allocate calls made so far (order of first allocation, last return)

vars == <<prog, phase, accepted, cg, ir, asm, regalloc, pos, mc, elf, cpu, runs, prev, iter, hist>>

-----------------------------------------------------------------------------
(* Bounds of the model *)

\* VRegs that SpecAlloc passes to allocate are 0 .. MaxVReg
MaxVReg == 5
\* longest instruction sequence SpecAsm hands to assemble
MaxInstrs == 3
\* deepest stack (in 8-byte slots) the machine runs with
MaxStack == 40
\* functions of the largest program compiled (main and MaxFunctions - 1 more)
MaxFunctions == 1000
\* iterations a while loop of the reference interpreter is followed for
MaxLoop == 20

-----------------------------------------------------------------------------
(* Helpers: Option, Result, HashMap *)

None == <<>>
Some(x) == <<x>>
IsSome(o) == o /= <<>>
Unwrap(o) == o[1]

Ok(v) == [ok |-> TRUE, err |-> "", value |-> v]
Err(msg) == [ok |-> FALSE, err |-> msg, value |-> <<>>]

\* let x = v; F(x)
With(v, F(_)) == F(v)

EmptyMap == <<>>
MapInsert(m, k, v) == (k :> v) @@ m
MapHas(m, k) == k \in DOMAIN m

\* a HashMap that is iterated (function_labels): the sequence of its entries
\* [name, id], one per key; the order of the sequence carries no meaning
EmptyHashMap == <<>>
HashInsert(entries, name, id) ==
    IF \E i \in 1..Len(entries) : entries[i].name = name
    THEN [i \in 1..Len(entries) |->
             IF entries[i].name = name THEN [name |-> name, id |-> id] ELSE entries[i]]
    ELSE Append(entries, [name |-> name, id |-> id])

-----------------------------------------------------------------------------
(* Little-endian encodings (to_le_bytes).  TLC integers are 32 bits wide,   *)
(* so the bytes of a negative number are taken from its ones' complement.   *)

Pow256(k) == CASE k = 0 -> 1 [] k = 1 -> 256 [] k = 2 -> 65536 [] k = 3 -> 16777216

ByteOf(n, k) ==
    IF k > 3 THEN (IF n < 0 THEN 255 ELSE 0)
    ELSE IF n >= 0 THEN (n \div Pow256(k)) % 256
    ELSE 255 - (((-n - 1) \div Pow256(k)) % 256)

\* (x as i32).to_le_bytes() for x within the i32 range
LE32(n) == [k \in 1..4 |-> ByteOf(n, k - 1)]
\* i64 / u64 to_le_bytes() for values within the i32 range
LE64(n) == [k \in 1..8 |-> ByteOf(n, k - 1)]
LE16(n) == [k \in 1..2 |-> ByteOf(n, k - 1)]

\* the signed 32-bit value of four little-endian bytes
DecodeLE32(b) ==
    IF b[4] >= 128
    THEN -((255 - b[1]) + 256 * (255 - b[2]) + 65536 * (255 - b[3])
            + 16777216 * (255 - b[4])) - 1
    ELSE b[1] + 256 * b[2] + 65536 * b[3] + 16777216 * b[4]

\* A 64-bit quantity (u64 position, i64 offset) that may lie outside the
\* i32 range: the value is hi * 2^16 + lo with 0 <= lo < 2^16, and hi
\* carries the sign.
I64(hi, lo) == [hi |-> hi, lo |-> lo]
I64Of(n) == [hi |-> (n - (n % 65536)) \div 65536, lo |-> n % 65536]

\* a + b and a - b in i64
I64Add(a, b) ==
    IF a.lo + b.lo < 65536 THEN I64(a.hi + b.hi, a.lo + b.lo)
    ELSE I64(a.hi + b.hi + 1, a.lo + b.lo - 65536)
I64Sub(a, b) ==
    IF a.lo >= b.lo THEN I64(a.hi - b.hi, a.lo - b.lo)
    ELSE I64(a.hi - b.hi - 1, a.lo - b.lo + 65536)

\* i32::MIN as i64 <= x && x <= i32::MAX as i64
FitsI32(x) == -32768 <= x.hi /\ x.hi <= 32767

\* (x as i32).to_le_bytes(): the low 32 bits, whatever x is
AsI32Bytes(x) ==
    <<x.lo % 256, x.lo \div 256, (x.hi % 65536) % 256, (x.hi % 65536) \div 256>>

-----------------------------------------------------------------------------
(* enum Register and Assembler::register_code *)

Registers == {"Rax", "Rbx", "Rcx", "Rdx", "Rsp", "Rbp", "Rsi", "Rdi",
              "R8", "R9", "R10", "R11", "R12", "R13", "R14", "R15"}

register_code(reg) ==
    CASE reg = "Rax" -> 0 [] reg = "Rbx" -> 3 [] reg = "Rcx" -> 1
      [] reg = "Rdx" -> 2 [] reg = "Rsp" -> 4 [] reg = "Rbp" -> 5
      [] reg = "Rsi" -> 6 [] reg = "Rdi" -> 7 [] reg = "R8" -> 0
      [] reg = "R9" -> 1 [] reg = "R10" -> 2 [] reg = "R11" -> 3
      [] reg = "R12" -> 4 [] reg = "R13" -> 5 [] reg = "R14" -> 6
      [] reg = "R15" -> 7

-----------------------------------------------------------------------------
(* RegisterAllocator (regalloc.rs) *)

available_registers == <<"Rbx", "Rcx", "Rdx", "Rsi", "Rdi">>

RegisterAllocatorNew == [allocation |-> EmptyMap, next_register_index |-> 0]

\* the register the next fresh VReg receives
AllocReg(ra) ==
    available_registers[(ra.next_register_index % Len(available_registers)) + 1]

\* a slip: the counter advances on every call, mapped or not
allocateAlwaysCounts(ra, vreg) ==
    IF MapHas(ra.allocation, vreg)
    THEN [ra |-> [ra EXCEPT !.next_register_index = @ + 1],
          reg |-> ra.allocation[vreg]]
    ELSE [ra |-> [allocation |-> MapInsert(ra.allocation, vreg, AllocReg(ra)),
                  next_register_index |-> ra.next_register_index + 1],
          reg |-> AllocReg(ra)]

\* allocate(&mut self, vreg) -> Register: the new allocator and the return value
allocate(ra, vreg) ==
    IF MapHas(ra.allocation, vreg)
    THEN [ra |-> ra, reg |-> ra.allocation[vreg]]
    ELSE [ra |-> [allocation |-> MapInsert(ra.allocation, vreg, AllocReg(ra)),
                  next_register_index |-> ra.next_register_index + 1],
          reg |-> AllocReg(ra)]

\* get_register(&self, vreg) -> Option<Register>
get_register(ra, vreg) ==
    IF MapHas(ra.allocation, vreg) THEN Some(ra.allocation[vreg]) ELSE None

-----------------------------------------------------------------------------
(* The instruction set (enum Instruction, enum Value, enum BinOp) *)

VRegV(v) == [kind |-> "VReg", vreg |-> v]
Immediate(n) == [kind |-> "Immediate", imm |-> n]
PhysicalReg(r) == [kind |-> "PhysicalReg", reg |-> r]

BinOps == {"Add", "Sub", "Mul", "Div", "Lt", "Le", "Gt", "Ge", "Eq", "Ne"}

ICopy(dest, src) == [tag |-> "Copy", dest |-> dest, src |-> src]
IBinaryOp(dest, lhs, rhs, op) ==
    [tag |-> "BinaryOp", dest |-> dest, lhs |-> lhs, rhs |-> rhs, op |-> op]
ILoad(dest, offset) == [tag |-> "Load", dest |-> dest, offset |-> offset]
IStore(src, offset) == [tag |-> "Store", src |-> src, offset |-> offset]
IPush(src) == [tag |-> "Push", src |-> src]
IPop(dest) == [tag |-> "Pop", dest |-> dest]
ILabel(id) == [tag |-> "Label", label |-> id]
IJump(id) == [tag |-> "Jump", label |-> id]
IBranch(condition, true_label, false_label) ==
    [tag |-> "Branch", condition |-> condition, true_label |-> true_label,
     false_label |-> false_label]
ICall(dest, function, args) ==
    [tag |-> "Call", dest |-> dest, function |-> function, args |-> args]
IReturn(value) == [tag |-> "Return", value |-> value]
ISyscall(result, syscall_num, args) ==
    [tag |-> "Syscall", result |-> result, syscall_num |-> syscall_num, args |-> args]
ISaveRegisters(registers) == [tag |-> "SaveRegisters", registers |-> registers]
IRestoreRegisters(registers) == [tag |-> "RestoreRegisters", registers |-> registers]

\* LabelId(999), the id emit_prologue reserves for _start
START_LABEL == 999

-----------------------------------------------------------------------------
(* The syntax tree (rue-ast): CstRoot, FunctionNode, BlockNode,             *)
(* StatementNode, ExpressionNode.  Tokens are kept by their kind only.      *)

Lit(n) == [kind |-> "Literal", value |-> n]
Id(name) == [kind |-> "Identifier", name |-> name]
Bin(left, operator, right) ==
    [kind |-> "Binary", left |-> left, operator |-> operator, right |-> right]
CallE(name, args) == [kind |-> "Call", function |-> Id(name), args |-> args]
IfE(condition, then_block, else_clause) ==
    [kind |-> "If", condition |-> condition, then_block |-> then_block,
     else_clause |-> else_clause]
ElseBlock(block) == Some([body |-> "Block", block |-> block])
ElseIf(nested_if) == Some([body |-> "If", nested |-> nested_if])
WhileE(condition, body) == [kind |-> "While", condition |-> condition, body |-> body]

Block(statements, final_expr) == [statements |-> statements, final_expr |-> final_expr]
LetS(name, value) == [kind |-> "Let", name |-> name, value |-> value]
AssignS(name, value) == [kind |-> "Assign", name |-> name, value |-> value]
ExprS(expression) == [kind |-> "Expression", expression |-> expression]

Fn(name, params, body) ==
    [kind |-> "Function", name |-> name, params |-> params, body |-> body]
TopStmt(stmt) == [kind |-> "Statement", stmt |-> stmt]

-----------------------------------------------------------------------------
(* The front end's check (rue-semantic): analyze_cst.  A scope is the set   *)
(* of variable names, the map function name -> param_count, and whether an  *)
(* error was returned.                                                      *)

ScopeDefault == [variables |-> {}, functions |-> EmptyMap, ok |-> TRUE]

RECURSIVE analyze_expression(_, _)
RECURSIVE analyze_statement(_, _)
RECURSIVE AnalyzeStatements(_, _, _)
RECURSIVE AnalyzeArgs(_, _, _)

\* for stmt in stmts[i..] { analyze_statement(scope, stmt)?; }
AnalyzeStatements(scope, stmts, i) ==
    IF ~scope.ok \/ i > Len(stmts) THEN scope
    ELSE AnalyzeStatements(analyze_statement(scope, stmts[i]), stmts, i + 1)

\* for arg in &call_expr.args { analyze_expression(scope, arg)?; }
AnalyzeArgs(scope, args, i) ==
    IF ~scope.ok \/ i > Len(args) THEN scope
    ELSE AnalyzeArgs(analyze_expression(scope, args[i]), args, i + 1)

\* statements of a block, then its final expression when there is one
AnalyzeBlock(scope, block) ==
    LET s1 == AnalyzeStatements(scope, block.statements, 1) IN
    IF ~s1.ok \/ ~IsSome(block.final_expr) THEN s1
    ELSE analyze_expression(s1, Unwrap(block.final_expr))

analyze_statement(scope, stmt) ==
    IF ~scope.ok THEN scope
    ELSE CASE stmt.kind = "Let" ->
              LET s1 == analyze_expression(scope, stmt.value) IN
              IF ~s1.ok THEN s1
              ELSE [s1 EXCEPT !.variables = @ \cup {stmt.name}]
           [] stmt.kind = "Assign" ->
              LET s1 == analyze_expression(scope, stmt.value) IN
              IF ~s1.ok THEN s1
              ELSE IF stmt.name \notin s1.variables
                   THEN [s1 EXCEPT !.ok = FALSE]   \* Cannot assign to undefined variable
                   ELSE s1
           [] stmt.kind = "Expression" ->
              analyze_expression(scope, stmt.expression)

analyze_expression(scope, expr) ==
    IF ~scope.ok THEN scope
    ELSE CASE expr.kind = "Literal" -> scope
           [] expr.kind = "Identifier" ->
              IF expr.name \in scope.variables THEN scope
              ELSE [scope EXCEPT !.ok = FALSE]     \* Undefined variable
           [] expr.kind = "Binary" ->
              analyze_expression(analyze_expression(scope, expr.left), expr.right)
           [] expr.kind = "Call" ->
              IF expr.function.kind /= "Identifier"
              THEN [scope EXCEPT !.ok = FALSE]     \* Function calls must use identifiers
              ELSE IF ~MapHas(scope.functions, expr.function.name)
              THEN [scope EXCEPT !.ok = FALSE]     \* Undefined function
              ELSE IF Len(expr.args) /= scope.functions[expr.function.name]
              THEN [scope EXCEPT !.ok = FALSE]     \* expects n arguments
              ELSE AnalyzeArgs(scope, expr.args, 1)
           [] expr.kind = "If" ->
              LET s1 == analyze_expression(scope, expr.condition)
                  s2 == AnalyzeBlock(s1, expr.then_block)
              IN  IF ~s2.ok \/ ~IsSome(expr.else_clause) THEN s2
                  ELSE LET ec == Unwrap(expr.else_clause) IN
                       IF ec.body = "Block" THEN AnalyzeBlock(s2, ec.block)
                       ELSE analyze_expression(s2, ec.nested)
           [] expr.kind = "While" ->
              AnalyzeBlock(analyze_expression(scope, expr.condition), expr.body)

\* analyze_function: the signature is registered in the global scope, the
\* body is analysed in a clone that then holds the parameter
analyze_function(scope, func) ==
    IF ~scope.ok THEN scope
    ELSE IF Len(func.params) > 1
    THEN [scope EXCEPT !.ok = FALSE]               \* at most one parameter
    ELSE LET registered ==
                 [scope EXCEPT !.functions = MapInsert(@, func.name, Len(func.params))]
             local_scope ==
                 IF Len(func.params) >= 1
                 THEN [registered EXCEPT !.variables = @ \cup {func.params[1]}]
                 ELSE registered
             analysed == AnalyzeBlock(local_scope, func.body)
         IN  [registered EXCEPT !.ok = analysed.ok]

\* the loop of analyze_cst over items[lo..hi], split in halves so that a
\* long item list does not nest deeply
RECURSIVE AnalyzeItems(_, _, _, _)
AnalyzeItems(scope, items, lo, hi) ==
    IF lo > hi \/ ~scope.ok THEN scope
    ELSE IF lo = hi
    THEN IF items[lo].kind = "Function" THEN analyze_function(scope, items[lo])
         ELSE analyze_statement(scope, items[lo].stmt)
    ELSE LET mid == (lo + hi) \div 2 IN
         AnalyzeItems(AnalyzeItems(scope, items, lo, mid), items, mid + 1, hi)

\* analyze_cst(ast).is_ok()
analyze_cst(items) == AnalyzeItems(ScopeDefault, items, 1, Len(items)).ok

-----------------------------------------------------------------------------
(* struct Codegen (lowering).  The record carries the fields of the struct  *)
(* and, in err, the CodegenError a `?` is propagating ("" when none).       *)

CodegenNew ==
    [instructions |-> <<>>, vreg_counter |-> 0, label_counter |-> 0,
     stack_offset |-> 0, variables |-> EmptyMap, function_labels |-> EmptyHashMap,
     err |-> ""]

\* next_vreg / next_label: the id minted and the advanced counter
next_vreg(c) == [c |-> [c EXCEPT !.vreg_counter = @ + 1], vreg |-> c.vreg_counter]
next_label(c) == [c |-> [c EXCEPT !.label_counter = @ + 1], label |-> c.label_counter]

emit(c, instr) == [c EXCEPT !.instructions = Append(@, instr)]
Fail(c, msg) == [c EXCEPT !.err = msg]

\* TokenKind of the operator -> BinOp, None for the `_` arm
BinOpOf(operator) ==
    CASE operator = "Plus" -> Some("Add")
      [] operator = "Minus" -> Some("Sub")
      [] operator = "Star" -> Some("Mul")
      [] operator = "Slash" -> Some("Div")
      [] operator = "LessEqual" -> Some("Le")
      [] operator = "Greater" -> Some("Gt")
      [] OTHER -> None

RECURSIVE expression_contains_call(_)
RECURSIVE statement_contains_call(_)
RECURSIVE StatementsContainCall(_, _)

StatementsContainCall(stmts, i) ==
    IF i > Len(stmts) THEN FALSE
    ELSE statement_contains_call(stmts[i]) \/ StatementsContainCall(stmts, i + 1)

block_contains_call(block) ==
    IF StatementsContainCall(block.statements, 1) THEN TRUE
    ELSE IF IsSome(block.final_expr)
         THEN expression_contains_call(Unwrap(block.final_expr))
         ELSE FALSE

statement_contains_call(stmt) ==
    CASE stmt.kind = "Expression" -> expression_contains_call(stmt.expression)
      [] stmt.kind = "Let" -> expression_contains_call(stmt.value)
      [] stmt.kind = "Assign" -> expression_contains_call(stmt.value)

\* a slip: a while expression is taken to hold no call
expression_contains_call_no_while(expr) ==
    CASE expr.kind = "Call" -> TRUE
      [] expr.kind = "Binary" ->
         expression_contains_call(expr.left) \/ expression_contains_call(expr.right)
      [] expr.kind = "If" ->
         \/ expression_contains_call(expr.condition)
         \/ block_contains_call(expr.then_block)
         \/ IF IsSome(expr.else_clause)
            THEN LET ec == Unwrap(expr.else_clause) IN
                 IF ec.body = "Block" THEN block_contains_call(ec.block)
                 ELSE expression_contains_call(ec.nested)
            ELSE FALSE
      [] expr.kind \in {"Literal", "Identifier", "While"} -> FALSE

expression_contains_call(expr) ==
    CASE expr.kind = "Call" -> TRUE
      [] expr.kind = "Binary" ->
         expression_contains_call(expr.left) \/ expression_contains_call(expr.right)
      [] expr.kind = "If" ->
         \/ expression_contains_call(expr.condition)
         \/ block_contains_call(expr.then_block)
         \/ IF IsSome(expr.else_clause)
            THEN LET ec == Unwrap(expr.else_clause) IN
                 IF ec.body = "Block" THEN block_contains_call(ec.block)
                 ELSE expression_contains_call(ec.nested)
            ELSE FALSE
      [] expr.kind = "While" ->
         expression_contains_call(expr.condition) \/ block_contains_call(expr.body)
      [] expr.kind \in {"Literal", "Identifier"} -> FALSE

RECURSIVE generate_expression(_, _)
RECURSIVE generate_statement(_, _)
RECURSIVE GenStatements(_, _, _, _)
RECURSIVE GenArgs(_, _, _, _)

\* for stmt in &stmts[lo..hi] { self.generate_statement(stmt, scope)?; }
GenStatements(c, stmts, lo, hi) ==
    IF c.err /= "" \/ lo > hi THEN c
    ELSE IF lo = hi THEN generate_statement(c, stmts[lo])
    ELSE GenStatements(GenStatements(c, stmts, lo, (lo + hi) \div 2),
                       stmts, ((lo + hi) \div 2) + 1, hi)

\* the argument loop of the Call arm: the VRegs of args[i..] are pushed onto acc
GenArgs(c, args, i, acc) ==
    IF c.err /= "" \/ i > Len(args) THEN [c |-> c, vregs |-> acc]
    ELSE With(generate_expression(c, args[i]), LAMBDA r :
         GenArgs(r.c, args, i + 1, Append(acc, r.vreg)))

\* let zero_vreg = self.next_vreg(); emit Copy { zero_vreg, Immediate(0) }
ZeroVReg(c) ==
    With(next_vreg(c), LAMBDA n :
    [c |-> emit(n.c, ICopy(n.vreg, Immediate(0))), vreg |-> n.vreg])

\* the statements of an if arm, then its final expression or a zero
GenArm(c, block) ==
    With(GenStatements(c, block.statements, 1, Len(block.statements)), LAMBDA c1 :
    IF c1.err /= "" THEN [c |-> c1, vreg |-> 0]
    ELSE IF IsSome(block.final_expr)
         THEN generate_expression(c1, Unwrap(block.final_expr))
         ELSE ZeroVReg(c1))

\* the Let arm and the Assign arm, given the lowered value
BindVariable(r, stmt) ==
    IF r.c.err /= "" THEN r.c
    ELSE IF stmt.kind = "Let" \/ MapHas(r.c.variables, stmt.name)
         THEN [r.c EXCEPT !.variables = MapInsert(@, stmt.name, r.vreg)]
         ELSE Fail(r.c, "Undefined variable in assignment")

generate_statement(c, stmt) ==
    IF c.err /= "" THEN c
    ELSE IF stmt.kind = "Expression"
         THEN generate_expression(c, stmt.expression).c
         ELSE BindVariable(generate_expression(c, stmt.value), stmt)

GenLiteral(c, expr) ==
    With(next_vreg(c), LAMBDA n :
    [c |-> emit(n.c, ICopy(n.vreg, Immediate(expr.value))), vreg |-> n.vreg])

GenIdentifier(c, expr) ==
    IF MapHas(c.variables, expr.name)
    THEN With(next_vreg(c), LAMBDA n :
         [c |-> emit(n.c, ICopy(n.vreg, VRegV(c.variables[expr.name]))),
          vreg |-> n.vreg])
    ELSE [c |-> Fail(c, "Undefined variable"), vreg |-> 0]

\* the Binary arm after its operands: r is the lowered right operand and
\* lhs the VReg that holds the left one
BinaryResult(r, dest, lhs, op) ==
    IF r.c.err /= "" THEN [c |-> r.c, vreg |-> 0]
    ELSE [c |-> emit(r.c, IBinaryOp(dest, VRegV(lhs), VRegV(r.vreg), op)),
          vreg |-> dest]

\* a slip: the left operand is pushed and never popped
BinarySpilledNoPop(l, expr, dest, op) ==
    IF l.c.err /= "" THEN [c |-> l.c, vreg |-> 0]
    ELSE BinaryResult(generate_expression(emit(l.c, IPush(l.vreg)), expr.right),
                      dest, l.vreg, op)

\* the Binary arm when the right operand holds a call: the left operand is
\* pushed, the right one lowered, and the left one popped into a fresh VReg
BinarySpilled(l, expr, dest, op) ==
    IF l.c.err /= "" THEN [c |-> l.c, vreg |-> 0]
    ELSE With(generate_expression(emit(l.c, IPush(l.vreg)), expr.right), LAMBDA r :
         IF r.c.err /= "" THEN [c |-> r.c, vreg |-> 0]
         ELSE With(next_vreg(r.c), LAMBDA lhs_restored :
              BinaryResult([c |-> emit(lhs_restored.c, IPop(lhs_restored.vreg)),
                            vreg |-> r.vreg],
                           dest, lhs_restored.vreg, op)))

\* the Binary arm otherwise
BinaryDirect(l, expr, dest, op) ==
    IF l.c.err /= "" THEN [c |-> l.c, vreg |-> 0]
    ELSE BinaryResult(generate_expression(l.c, expr.right), dest, l.vreg, op)

GenBinary(c, expr) ==
    With(next_vreg(c), LAMBDA d :
    With(BinOpOf(expr.operator), LAMBDA op :
    IF ~IsSome(op) THEN [c |-> Fail(d.c, "Unsupported operator"), vreg |-> 0]
    ELSE IF expression_contains_call(expr.right)
    THEN BinarySpilled(generate_expression(d.c, expr.left), expr, d.vreg, Unwrap(op))
    ELSE BinaryDirect(generate_expression(d.c, expr.left), expr, d.vreg, Unwrap(op))))

GenCall(c, expr) ==
    With(GenArgs(c, expr.args, 1, <<>>), LAMBDA a :
    IF a.c.err /= "" THEN [c |-> a.c, vreg |-> 0]
    ELSE IF expr.function.kind /= "Identifier"
    THEN [c |-> Fail(a.c, "Function calls must use identifiers"), vreg |-> 0]
    ELSE With(next_vreg(a.c), LAMBDA d :
         [c |-> emit(d.c, ICall(Some(d.vreg), expr.function.name, a.vregs)),
          vreg |-> d.vreg]))

\* a slip: an absent else clause gets a VReg that no Copy sets to 0
GenElseNoZero(c, expr) ==
    IF IsSome(expr.else_clause)
    THEN IF Unwrap(expr.else_clause).body = "Block"
         THEN GenArm(c, Unwrap(expr.else_clause).block)
         ELSE generate_expression(c, Unwrap(expr.else_clause).nested)
    ELSE next_vreg(c)

\* the else arm of the If arm
GenElse(c, expr) ==
    IF IsSome(expr.else_clause)
    THEN IF Unwrap(expr.else_clause).body = "Block"
         THEN GenArm(c, Unwrap(expr.else_clause).block)
         ELSE generate_expression(c, Unwrap(expr.else_clause).nested)
    ELSE ZeroVReg(c)

GenIf(c, expr) ==
    With(next_label(c), LAMBDA else_label :
    With(next_label(else_label.c), LAMBDA end_label :
    With(next_vreg(end_label.c), LAMBDA result_vreg :
    With(generate_expression(result_vreg.c, expr.condition), LAMBDA cond :
    IF cond.c.err /= "" THEN [c |-> cond.c, vreg |-> 0]
    ELSE
    With(next_label(cond.c), LAMBDA then_label :
    With(GenArm(emit(emit(then_label.c,
                          IBranch(cond.vreg, then_label.label, else_label.label)),
                     ILabel(then_label.label)),
                expr.then_block), LAMBDA then_result :
    IF then_result.c.err /= "" THEN [c |-> then_result.c, vreg |-> 0]
    ELSE
    With(GenElse(emit(emit(emit(then_result.c,
                                ICopy(result_vreg.vreg, VRegV(then_result.vreg))),
                           IJump(end_label.label)),
                      ILabel(else_label.label)),
                 expr), LAMBDA else_result :
    IF else_result.c.err /= "" THEN [c |-> else_result.c, vreg |-> 0]
    ELSE [c |-> emit(emit(else_result.c,
                          ICopy(result_vreg.vreg, VRegV(else_result.vreg))),
                     ILabel(end_label.label)),
          vreg |-> result_vreg.vreg])))))))

\* the body of the While arm: its statements, then its final expression
GenLoopBody(c, body) ==
    With(GenStatements(c, body.statements, 1, Len(body.statements)), LAMBDA c3 :
    IF c3.err = "" /\ IsSome(body.final_expr)
    THEN generate_expression(c3, Unwrap(body.final_expr)).c
    ELSE c3)

GenWhile(c, expr) ==
    With(next_label(c), LAMBDA loop_start :
    With(next_label(loop_start.c), LAMBDA loop_end :
    With(generate_expression(emit(loop_end.c, ILabel(loop_start.label)),
                             expr.condition), LAMBDA cond :
    IF cond.c.err /= "" THEN [c |-> cond.c, vreg |-> 0]
    ELSE
    With(next_label(cond.c), LAMBDA body_label :
    With(GenLoopBody(emit(emit(body_label.c,
                               IBranch(cond.vreg, body_label.label, loop_end.label)),
                          ILabel(body_label.label)),
                     expr.body), LAMBDA c4 :
    IF c4.err /= "" THEN [c |-> c4, vreg |-> 0]
    ELSE ZeroVReg(emit(emit(c4, IJump(loop_start.label)),
                       ILabel(loop_end.label))))))))

generate_expression(c, expr) ==
    IF c.err /= "" THEN [c |-> c, vreg |-> 0]
    ELSE CASE expr.kind = "Literal" -> GenLiteral(c, expr)
           [] expr.kind = "Identifier" -> GenIdentifier(c, expr)
           [] expr.kind = "Binary" -> GenBinary(c, expr)
           [] expr.kind = "Call" -> GenCall(c, expr)
           [] expr.kind = "If" -> GenIf(c, expr)
           [] expr.kind = "While" -> GenWhile(c, expr)

\* a slip: the Syscall is given the VReg of the syscall number as argument
emit_prologue_wrong_arg(c) ==
    With(next_vreg(emit(c, ILabel(START_LABEL))), LAMBDA main_result :
    With(next_vreg(emit(main_result.c,
                        ICall(Some(main_result.vreg), "main", <<>>))),
         LAMBDA exit_code :
    With(next_vreg(emit(exit_code.c,
                        ICopy(exit_code.vreg, VRegV(main_result.vreg)))),
         LAMBDA syscall_num :
    With(next_vreg(emit(syscall_num.c, ICopy(syscall_num.vreg, Immediate(60)))),
         LAMBDA syscall_result :
    emit(syscall_result.c,
         ISyscall(syscall_result.vreg, syscall_num.vreg, <<syscall_num.vreg>>))))))

\* emit_prologue: Label(_start); Call main; Copy; Copy 60; Syscall
emit_prologue(c) ==
    With(next_vreg(emit(c, ILabel(START_LABEL))), LAMBDA main_result :
    With(next_vreg(emit(main_result.c,
                        ICall(Some(main_result.vreg), "main", <<>>))),
         LAMBDA exit_code :
    With(next_vreg(emit(exit_code.c,
                        ICopy(exit_code.vreg, VRegV(main_result.vreg)))),
         LAMBDA syscall_num :
    With(next_vreg(emit(syscall_num.c, ICopy(syscall_num.vreg, Immediate(60)))),
         LAMBDA syscall_result :
    emit(syscall_result.c,
         ISyscall(syscall_result.vreg, syscall_num.vreg, <<exit_code.vreg>>))))))

\* the parameter of generate_function: a VReg for it, copied from RDI
GenParam(c, func) ==
    IF Len(func.params) >= 1
    THEN With(next_vreg(c), LAMBDA param_vreg :
         emit([param_vreg.c EXCEPT !.variables =
                   MapInsert(@, func.params[1], param_vreg.vreg)],
              ICopy(param_vreg.vreg, PhysicalReg("Rdi"))))
    ELSE c

\* a slip: the per-function state is reset but no Return is emitted
GenReturnNoEmit(c, value) ==
    IF c.err /= "" THEN c
    ELSE [c EXCEPT !.stack_offset = 0, !.variables = EmptyMap]

\* the end of generate_function: Return, reset of the per-function state
GenReturn(c, value) ==
    IF c.err /= "" THEN c
    ELSE [emit(c, IReturn(value)) EXCEPT !.stack_offset = 0, !.variables = EmptyMap]

\* the final expression of generate_function and its Return
GenFinal(c, func) ==
    IF c.err /= "" THEN c
    ELSE IF IsSome(func.body.final_expr)
    THEN With(generate_expression(c, Unwrap(func.body.final_expr)), LAMBDA r :
         GenReturn(r.c, Some(r.vreg)))
    ELSE GenReturn(c, None)

\* generate_function: label, parameter, body statements, final expression,
\* Return, reset of the per-function state
generate_function(c, func) ==
    IF c.err /= "" THEN c
    ELSE With(next_label(c), LAMBDA func_label :
         GenFinal(GenStatements(
                      GenParam([emit(func_label.c, ILabel(func_label.label))
                                    EXCEPT !.function_labels =
                                        HashInsert(@, func.name, func_label.label)],
                               func),
                      func.body.statements, 1, Len(func.body.statements)),
                  func))

IsFunctionNamed(item, name) == item.kind = "Function" /\ item.name = name
HasMain(items) == \E i \in 1..Len(items) : IsFunctionNamed(items[i], "main")
FirstMain(items) ==
    CHOOSE i \in 1..Len(items) :
        /\ IsFunctionNamed(items[i], "main")
        /\ \A j \in 1..(i - 1) : ~IsFunctionNamed(items[j], "main")

\* the second loop of generate over items[lo..hi]: every function whose name
\* is not main, in source order (split in halves to keep the nesting shallow)
RECURSIVE GenOtherFunctions(_, _, _, _)
GenOtherFunctions(c, items, lo, hi) ==
    IF lo > hi \/ c.err /= "" THEN c
    ELSE IF lo = hi
    THEN IF items[lo].kind = "Function" /\ items[lo].name /= "main"
         THEN generate_function(c, items[lo])
         ELSE c
    ELSE GenOtherFunctions(GenOtherFunctions(c, items, lo, (lo + hi) \div 2),
                           items, ((lo + hi) \div 2) + 1, hi)

\* what generate returns for the Codegen it ends with
GenerateResult(c) ==
    [c |-> c, result |-> IF c.err /= "" THEN Err(c.err) ELSE Ok(c.instructions)]

\* a slip: main is lowered where the second loop ends
GenFunctionsMainLast(c, items) ==
    generate_function(GenOtherFunctions(c, items, 1, Len(items)),
                      items[FirstMain(items)])

\* the two loops of generate
GenFunctions(c, items) ==
    GenOtherFunctions(generate_function(c, items[FirstMain(items)]),
                      items, 1, Len(items))

\* a slip: the missing main is not reported
generate_no_main_check(c, items) ==
    GenerateResult(IF HasMain(items) THEN GenFunctions(emit_prologue(c), items)
                   ELSE GenOtherFunctions(emit_prologue(c), items, 1, Len(items)))

\* Codegen::generate: the Codegen afterwards and the Result it returns
generate(c, items) ==
    IF ~HasMain(items)
    THEN [c |-> emit_prologue(c), result |-> Err("No main function found")]
    ELSE GenerateResult(GenFunctions(emit_prologue(c), items))

-----------------------------------------------------------------------------
(* struct Assembler.  Besides the fields of the struct the record holds the *)
(* locals of assemble (label_positions, forward_refs), the error being      *)
(* propagated, and for every instruction processed the offset current_pos   *)
(* at which it started (instr_start) and the offsets of the rel32 fields it *)
(* reserved (fixups).                                                       *)

AssemblerNew ==
    [code |-> <<>>, symbol_table |-> EmptyMap, relocations |-> <<>>,
     function_labels |-> EmptyHashMap, label_positions |-> EmptyMap,
     forward_refs |-> <<>>, instr_start |-> <<>>, fixups |-> <<>>, err |-> ""]

add_function_mapping(a, name, label_id) ==
    [a EXCEPT !.function_labels = HashInsert(@, name, label_id)]

\* the VRegs collect_vregs_for_allocation passes to allocate, in call order
ValueVRegs(val) == IF val.kind = "VReg" THEN <<val.vreg>> ELSE <<>>

\* a slip: the operands of a BinaryOp and the source of a Push are skipped
CollectedVRegsPartial(instr) ==
    CASE instr.tag = "Copy" -> <<instr.dest>> \o ValueVRegs(instr.src)
      [] instr.tag = "BinaryOp" -> <<instr.dest>>
      [] instr.tag = "Return" -> instr.value
      [] instr.tag = "Branch" -> <<instr.condition>>
      [] instr.tag = "Call" -> instr.dest \o instr.args
      [] instr.tag = "Syscall" -> <<instr.result, instr.syscall_num>> \o instr.args
      [] instr.tag = "Load" -> <<instr.dest>>
      [] instr.tag = "Store" -> <<instr.src>>
      [] instr.tag = "Pop" -> <<instr.dest>>
      [] OTHER -> <<>>

CollectedVRegs(instr) ==
    CASE instr.tag = "Copy" -> <<instr.dest>> \o ValueVRegs(instr.src)
      [] instr.tag = "BinaryOp" ->
         <<instr.dest>> \o ValueVRegs(instr.lhs) \o ValueVRegs(instr.rhs)
      [] instr.tag = "Return" -> instr.value
      [] instr.tag = "Branch" -> <<instr.condition>>
      [] instr.tag = "Call" -> instr.dest \o instr.args
      [] instr.tag = "Syscall" -> <<instr.result, instr.syscall_num>> \o instr.args
      [] instr.tag = "Load" -> <<instr.dest>>
      [] instr.tag = "Store" -> <<instr.src>>
      [] instr.tag = "SaveRegisters" -> <<>>
      [] instr.tag = "RestoreRegisters" -> <<>>
      [] instr.tag = "Push" -> <<instr.src>>
      [] instr.tag = "Pop" -> <<instr.dest>>
      [] instr.tag \in {"Label", "Jump"} -> <<>>

RECURSIVE AllocateSeq(_, _, _)
AllocateSeq(ra, vregs, i) ==
    IF i > Len(vregs) THEN ra
    ELSE AllocateSeq(allocate(ra, vregs[i]).ra, vregs, i + 1)

collect_vregs_for_allocation(ra, instr) == AllocateSeq(ra, CollectedVRegs(instr), 1)

\* step 1 of assemble: the allocation pass over instructions[lo..hi]
RECURSIVE AllocationPass(_, _, _, _)
AllocationPass(ra, instructions, lo, hi) ==
    IF lo > hi \/ ra.next_register_index < 0 THEN ra     \* (the index is a usize)
    ELSE IF lo = hi THEN collect_vregs_for_allocation(ra, instructions[lo])
    ELSE LET mid == (lo + hi) \div 2 IN
         AllocationPass(AllocationPass(ra, instructions, lo, mid),
                        instructions, mid + 1, hi)

-----------------------------------------------------------------------------
(* Assembler::emit_targetir_instruction: the bytes are written in decimal   *)
(* (0x48 = 72, 0x89 = 137, 0xc0 = 192, ...).                                *)

PushBytes(a, bytes) == [a EXCEPT !.code = @ \o bytes]
AsmFail(a, msg) == [a EXCEPT !.err = msg]

\* 0xc0 | (reg << 3) | rm
ModRM(reg, rm) == 192 + 8 * reg + rm
\* mov dst, src = 48 89 ModR/M
MovRR(src, dst) == <<72, 137, ModRM(register_code(src), register_code(dst))>>
\* mov reg, imm64 = 48 b8+r imm64
MovImm(dst, imm) == <<72, 184 + register_code(dst)>> \o LE64(imm)

NoRegister == "No register allocated"

\* add_relocation: offset is the current end of the code
add_relocation(a, symbol) ==
    [a EXCEPT !.relocations = Append(@, [offset |-> Len(a.code), symbol |-> symbol])]

EmitCopy(a, ra, instr) ==
    LET dest_reg == get_register(ra, instr.dest) IN
    IF ~IsSome(dest_reg) THEN AsmFail(a, NoRegister)
    ELSE CASE instr.src.kind = "Immediate" ->
              PushBytes(a, MovImm(Unwrap(dest_reg), instr.src.imm))
           [] instr.src.kind = "VReg" ->
              LET src_reg == get_register(ra, instr.src.vreg) IN
              IF ~IsSome(src_reg) THEN AsmFail(a, NoRegister)
              ELSE PushBytes(a, MovRR(Unwrap(src_reg), Unwrap(dest_reg)))
           [] instr.src.kind = "PhysicalReg" ->
              PushBytes(a, MovRR(instr.src.reg, Unwrap(dest_reg)))

\* the second half of the BinaryOp arm: apply op with rhs to dest_reg
EmitBinaryRhs(a, ra, instr, dest_reg) ==
    LET d == register_code(dest_reg)
        cmpMsg == "Immediate operands not yet supported for comparisons"
        immMsg == "Immediate operands not yet supported for binary ops"
        physMsg == "PhysicalReg not supported in binary operations"
    IN
    IF instr.op = "Div" THEN AsmFail(a, "Division not yet implemented in TargetIR backend")
    ELSE IF instr.op \notin {"Add", "Sub", "Mul", "Le", "Gt"}
    THEN AsmFail(a, "Binary operation not yet implemented")
    ELSE IF instr.rhs.kind = "Immediate"
    THEN AsmFail(a, IF instr.op \in {"Le", "Gt"} THEN cmpMsg ELSE immMsg)
    ELSE IF instr.rhs.kind = "PhysicalReg" THEN AsmFail(a, physMsg)
    ELSE LET rhs_reg == get_register(ra, instr.rhs.vreg) IN
         IF ~IsSome(rhs_reg) THEN AsmFail(a, NoRegister)
         ELSE LET r == register_code(Unwrap(rhs_reg)) IN
              CASE instr.op = "Add" -> PushBytes(a, <<72, 1, ModRM(r, d)>>)
                [] instr.op = "Sub" -> PushBytes(a, <<72, 41, ModRM(r, d)>>)
                [] instr.op = "Mul" -> PushBytes(a, <<72, 15, 175, ModRM(d, r)>>)
                [] instr.op = "Le" ->
                   PushBytes(a, <<72, 57, ModRM(r, d), 15, 158, 192,
                                  72, 15, 182, ModRM(d, 0)>>)
                [] instr.op = "Gt" ->
                   PushBytes(a, <<72, 57, ModRM(r, d), 15, 159, 192,
                                  72, 15, 182, ModRM(d, 0)>>)

\* a slip: a PhysicalReg left operand is moved like a register operand
EmitBinaryOpPhysicalLhs(a, ra, instr) ==
    LET dest_reg == get_register(ra, instr.dest) IN
    IF ~IsSome(dest_reg) THEN AsmFail(a, NoRegister)
    ELSE CASE instr.lhs.kind = "Immediate" ->
              EmitBinaryRhs(PushBytes(a, MovImm(Unwrap(dest_reg), instr.lhs.imm)),
                            ra, instr, Unwrap(dest_reg))
           [] instr.lhs.kind = "VReg" ->
              LET lhs_reg == get_register(ra, instr.lhs.vreg) IN
              IF ~IsSome(lhs_reg) THEN AsmFail(a, NoRegister)
              ELSE EmitBinaryRhs(PushBytes(a, MovRR(Unwrap(lhs_reg), Unwrap(dest_reg))),
                                 ra, instr, Unwrap(dest_reg))
           [] instr.lhs.kind = "PhysicalReg" ->
              EmitBinaryRhs(PushBytes(a, MovRR(instr.lhs.reg, Unwrap(dest_reg))),
                            ra, instr, Unwrap(dest_reg))

EmitBinaryOp(a, ra, instr) ==
    LET dest_reg == get_register(ra, instr.dest) IN
    IF ~IsSome(dest_reg) THEN AsmFail(a, NoRegister)
    ELSE CASE instr.lhs.kind = "Immediate" ->
              EmitBinaryRhs(PushBytes(a, MovImm(Unwrap(dest_reg), instr.lhs.imm)),
                            ra, instr, Unwrap(dest_reg))
           [] instr.lhs.kind = "VReg" ->
              LET lhs_reg == get_register(ra, instr.lhs.vreg) IN
              IF ~IsSome(lhs_reg) THEN AsmFail(a, NoRegister)
              ELSE EmitBinaryRhs(PushBytes(a, MovRR(Unwrap(lhs_reg), Unwrap(dest_reg))),
                                 ra, instr, Unwrap(dest_reg))
           [] instr.lhs.kind = "PhysicalReg" ->
              AsmFail(a, "PhysicalReg not supported in binary operations")

EmitReturn(a, ra, instr) ==
    IF IsSome(instr.value)
    THEN LET return_reg == get_register(ra, Unwrap(instr.value)) IN
         IF ~IsSome(return_reg) THEN AsmFail(a, NoRegister)
         ELSE IF Unwrap(return_reg) /= "Rax"
              THEN PushBytes(a, MovRR(Unwrap(return_reg), "Rax") \o <<195>>)
              ELSE PushBytes(a, <<195>>)
    ELSE PushBytes(a, <<195>>)

arg_registers == <<"Rdi", "Rsi", "Rdx", "Rcx">>

TooManyArguments == "Too many arguments for function call (max 4 supported)"

\* a slip: the limit is checked against one register more
EmitCallArgsFive(a, ra, args, i) ==
    IF Len(args) > Len(arg_registers) + 1 THEN AsmFail(a, TooManyArguments)
    ELSE a

\* the argument loop of the Call arm, from the i-th argument on
RECURSIVE EmitCallArgs(_, _, _, _)
EmitCallArgs(a, ra, args, i) ==
    IF i > Len(args) \/ a.err /= "" THEN a
    ELSE IF i - 1 >= Len(arg_registers) THEN AsmFail(a, TooManyArguments)
    ELSE LET src_reg == get_register(ra, args[i]) IN
         IF ~IsSome(src_reg) THEN AsmFail(a, NoRegister)
         ELSE EmitCallArgs(IF Unwrap(src_reg) /= arg_registers[i]
                           THEN PushBytes(a, MovRR(Unwrap(src_reg), arg_registers[i]))
                           ELSE a,
                           ra, args, i + 1)

EmitCall(a, ra, instr) ==
    LET a1 == EmitCallArgs(a, ra, instr.args, 1)
        a2 == PushBytes(add_relocation(PushBytes(a1, <<232>>), instr.function),
                        <<0, 0, 0, 0>>)
    IN  IF a1.err /= "" THEN a1
        ELSE IF IsSome(instr.dest)
        THEN LET dest_reg == get_register(ra, Unwrap(instr.dest)) IN
             IF ~IsSome(dest_reg) THEN AsmFail(a2, NoRegister)
             ELSE IF Unwrap(dest_reg) /= "Rax"
                  THEN PushBytes(a2, MovRR("Rax", Unwrap(dest_reg)))
                  ELSE a2
        ELSE a2

EmitSyscall(a, ra, instr) ==
    LET syscall_reg == get_register(ra, instr.syscall_num)
        a1 == IF Unwrap(syscall_reg) /= "Rax"
              THEN PushBytes(a, MovRR(Unwrap(syscall_reg), "Rax")) ELSE a
        arg_reg == get_register(ra, instr.args[1])
        a2 == IF Len(instr.args) > 0
              THEN (IF Unwrap(arg_reg) /= "Rdi"
                    THEN PushBytes(a1, MovRR(Unwrap(arg_reg), "Rdi")) ELSE a1)
              ELSE a1
        a3 == PushBytes(a2, <<15, 5>>)
        result_reg == get_register(ra, instr.result)
    IN  IF ~IsSome(syscall_reg) THEN AsmFail(a, NoRegister)
        ELSE IF Len(instr.args) > 0 /\ ~IsSome(arg_reg) THEN AsmFail(a1, NoRegister)
        ELSE IF ~IsSome(result_reg) THEN AsmFail(a3, NoRegister)
        ELSE IF Unwrap(result_reg) /= "Rax"
             THEN PushBytes(a3, MovRR("Rax", Unwrap(result_reg)))
             ELSE a3

\* mov dest, [rsp + offset] = 48 8b ModR/M(mod=10, rm=100) SIB(24) disp32
EmitLoad(a, ra, instr) ==
    LET dest_reg == get_register(ra, instr.dest) IN
    IF ~IsSome(dest_reg) THEN AsmFail(a, NoRegister)
    ELSE PushBytes(a, <<72, 139, 128 + 8 * register_code(Unwrap(dest_reg)) + 4, 36>>
                      \o AsI32Bytes(instr.offset))

\* mov [rsp + offset], src = 48 89 ModR/M(mod=10, rm=100) SIB(24) disp32
EmitStore(a, ra, instr) ==
    LET src_reg == get_register(ra, instr.src) IN
    IF ~IsSome(src_reg) THEN AsmFail(a, NoRegister)
    ELSE PushBytes(a, <<72, 137, 128 + 8 * register_code(Unwrap(src_reg)) + 4, 36>>
                      \o AsI32Bytes(instr.offset))

Reverse(s) == [i \in 1..Len(s) |-> s[Len(s) + 1 - i]]

EmitPush(a, ra, instr) ==
    LET src_reg == get_register(ra, instr.src) IN
    IF ~IsSome(src_reg) THEN AsmFail(a, NoRegister)
    ELSE PushBytes(a, <<80 + register_code(Unwrap(src_reg))>>)

EmitPop(a, ra, instr) ==
    LET dest_reg == get_register(ra, instr.dest) IN
    IF ~IsSome(dest_reg) THEN AsmFail(a, NoRegister)
    ELSE PushBytes(a, <<88 + register_code(Unwrap(dest_reg))>>)

emit_targetir_instruction(a, ra, instr) ==
    CASE instr.tag = "Copy" -> EmitCopy(a, ra, instr)
      [] instr.tag = "BinaryOp" -> EmitBinaryOp(a, ra, instr)
      [] instr.tag = "Return" -> EmitReturn(a, ra, instr)
      [] instr.tag = "Call" -> EmitCall(a, ra, instr)
      [] instr.tag = "Syscall" -> EmitSyscall(a, ra, instr)
      [] instr.tag = "Load" -> EmitLoad(a, ra, instr)
      [] instr.tag = "Store" -> EmitStore(a, ra, instr)
      [] instr.tag = "SaveRegisters" ->
         PushBytes(a, [i \in 1..Len(instr.registers) |->
                           80 + register_code(instr.registers[i])])
      [] instr.tag = "RestoreRegisters" ->
         PushBytes(a, [i \in 1..Len(instr.registers) |->
                           88 + register_code(Reverse(instr.registers)[i])])
      [] instr.tag = "Push" -> EmitPush(a, ra, instr)
      [] instr.tag = "Pop" -> EmitPop(a, ra, instr)
      [] instr.tag = "Label" -> a

-----------------------------------------------------------------------------
(* Assembler::assemble, step 2: one iteration of the loop over the          *)
(* instructions.  `found` is what function_labels.iter().find(..) returns   *)
(* in the Label arm: None, or Some(name) for a name mapped to this id; the  *)
(* iteration order of the HashMap decides which name when several are.      *)

LabelSymbol(id) == "label_" \o ToString(id)

FunctionsOfLabel(function_labels, id) ==
    {function_labels[i].name :
         i \in {j \in 1..Len(function_labels) : function_labels[j].id = id}}

\* the values find(..).map(|(name, _)| name) can have, over all iteration orders
FindResults(function_labels, id) ==
    IF FunctionsOfLabel(function_labels, id) = {} THEN {None}
    ELSE {Some(name) : name \in FunctionsOfLabel(function_labels, id)}

\* a slip: a label emits a nop
AsmLabelEmits(a, label_id, found) ==
    LET current_pos == Len(a.code)
        t0 == IF label_id = START_LABEL
              THEN MapInsert(a.symbol_table, "_start", current_pos)
              ELSE a.symbol_table
        t1 == MapInsert(t0, LabelSymbol(label_id), current_pos)
        t2 == IF IsSome(found) THEN MapInsert(t1, Unwrap(found), current_pos) ELSE t1
    IN  [a EXCEPT !.label_positions = MapInsert(@, label_id, current_pos),
                  !.symbol_table = t2, !.code = Append(@, 144)]

\* the Label arm
AsmLabel(a, label_id, found) ==
    LET current_pos == Len(a.code)
        t0 == IF label_id = START_LABEL
              THEN MapInsert(a.symbol_table, "_start", current_pos)
              ELSE a.symbol_table
        t1 == MapInsert(t0, LabelSymbol(label_id), current_pos)
        t2 == IF IsSome(found) THEN MapInsert(t1, Unwrap(found), current_pos) ELSE t1
    IN  [a EXCEPT !.label_positions = MapInsert(@, label_id, current_pos),
                  !.symbol_table = t2]

\* the Jump arm: e9 and a four-byte placeholder
AsmJump(a, target_label) ==
    LET fixup_pos == Len(a.code) + 1 IN
    [a EXCEPT !.code = @ \o <<233, 0, 0, 0, 0>>,
              !.forward_refs = Append(@, [pos |-> fixup_pos, label |-> target_label])]

\* the Branch arm: cmp reg, 0; jne true_label; jmp false_label
AsmBranch(a, ra, instr) ==
    LET cond_reg == get_register(ra, instr.condition)
        current_pos == Len(a.code)
        true_fixup_pos == current_pos + 6
        false_fixup_pos == current_pos + 11
    IN  IF ~IsSome(cond_reg) THEN AsmFail(a, NoRegister)
        ELSE [a EXCEPT
                 !.code = @ \o <<72, 131, 248 + register_code(Unwrap(cond_reg)), 0,
                                 15, 133, 0, 0, 0, 0, 233, 0, 0, 0, 0>>,
                 !.forward_refs =
                     @ \o <<[pos |-> true_fixup_pos, label |-> instr.true_label],
                            [pos |-> false_fixup_pos, label |-> instr.false_label]>>]

\* the rel32 fields an instruction reserved, given the assembler after it
FixupsOf(before, after, instr) ==
    CASE instr.tag = "Jump" -> <<Len(before.code) + 1>>
      [] instr.tag = "Branch" /\ after.err = "" ->
         <<Len(before.code) + 6, Len(before.code) + 11>>
      [] instr.tag = "Call" /\ Len(after.relocations) > Len(before.relocations) ->
         <<after.relocations[Len(after.relocations)].offset>>
      [] OTHER -> <<>>

\* one iteration: match instr { Label, Jump, Branch, _ }
AsmInstr(a, ra, instr, found) ==
    LET after ==
            CASE instr.tag = "Label" -> AsmLabel(a, instr.label, found)
              [] instr.tag = "Jump" -> AsmJump(a, instr.label)
              [] instr.tag = "Branch" -> AsmBranch(a, ra, instr)
              [] OTHER -> emit_targetir_instruction(a, ra, instr)
    IN  [after EXCEPT !.instr_start = Append(@, Len(a.code)),
                      !.fixups = Append(@, FixupsOf(a, after, instr))]

\* code[offset .. offset+4] = bytes (offset counts from 0)
WriteBytes(code, offset, bytes) ==
    [i \in 1..Len(code) |->
        IF i > offset /\ i <= offset + Len(bytes) THEN bytes[i - offset] ELSE code[i]]

\* a slip: the displacement is taken from the start of the field
PatchDisplacementFromField(fixup_pos, target_addr) ==
    AsI32Bytes(I64Sub(target_addr, fixup_pos))

\* the four bytes step 3 writes at fixup_pos for a label at target_addr:
\* offset = target_addr - (fixup_pos + 4); (offset as i32).to_le_bytes()
PatchDisplacement(fixup_pos, target_addr) ==
    AsI32Bytes(I64Sub(target_addr, I64Add(fixup_pos, I64Of(4))))

\* a slip: a forward reference to a label never seen is left as it is
PatchOneSkipUndefined(a, ref) ==
    IF MapHas(a.label_positions, ref.label)
    THEN [a EXCEPT !.code =
             WriteBytes(@, ref.pos,
                        PatchDisplacement(I64Of(ref.pos),
                                          I64Of(a.label_positions[ref.label])))]
    ELSE a

\* step 3: one forward reference patched
PatchOne(a, ref) ==
    IF MapHas(a.label_positions, ref.label)
    THEN [a EXCEPT !.code =
             WriteBytes(@, ref.pos,
                        PatchDisplacement(I64Of(ref.pos),
                                          I64Of(a.label_positions[ref.label])))]
    ELSE AsmFail(a, "Undefined label")

\* `for (fixup_pos, target_label, _) in forward_refs`, over refs lo..hi
RECURSIVE PatchAll(_, _, _)
PatchAll(a, lo, hi) ==
    IF lo > hi \/ a.err /= "" THEN a
    ELSE IF lo = hi THEN PatchOne(a, a.forward_refs[lo])
    ELSE LET mid == (lo + hi) \div 2 IN
         PatchAll(PatchAll(a, lo, mid), mid + 1, hi)

\* relative_addr = target_addr - (offset + 4) of resolve_relocations
RelativeAddr(offset, target_addr) == I64Sub(target_addr, I64Add(offset, I64Of(4)))

\* the range check of resolve_relocations and the bytes it writes
ResolveDisplacement(offset, target_addr) ==
    IF ~FitsI32(RelativeAddr(offset, target_addr))
    THEN Err("Relative address out of range")
    ELSE Ok(AsI32Bytes(RelativeAddr(offset, target_addr)))

\* the relocation written into the code, or the error of the range check
ResolveWrite(a, reloc, d) ==
    IF ~d.ok THEN AsmFail(a, d.err)
    ELSE [a EXCEPT !.code = WriteBytes(@, reloc.offset, d.value)]

\* step 4: resolve_relocations
ResolveOne(a, reloc) ==
    IF ~MapHas(a.symbol_table, reloc.symbol) THEN AsmFail(a, "Undefined symbol")
    ELSE ResolveWrite(a, reloc,
                      ResolveDisplacement(I64Of(reloc.offset),
                                          I64Of(a.symbol_table[reloc.symbol])))

\* `for reloc in &self.relocations`, over relocations lo..hi
RECURSIVE ResolveAll(_, _, _)
ResolveAll(a, lo, hi) ==
    IF lo > hi \/ a.err /= "" THEN a
    ELSE IF lo = hi THEN ResolveOne(a, a.relocations[lo])
    ELSE LET mid == (lo + hi) \div 2 IN
         ResolveAll(ResolveAll(a, lo, mid), mid + 1, hi)

resolve_relocations(a) == ResolveAll(a, 1, Len(a.relocations))

\* the start of step 2: code, relocations and symbol_table are cleared
AssembleBegin(a) ==
    [a EXCEPT !.code = <<>>, !.relocations = <<>>, !.symbol_table = EmptyMap,
              !.label_positions = EmptyMap, !.forward_refs = <<>>,
              !.instr_start = <<>>, !.fixups = <<>>, !.err = ""]

\* the orders in which the entries of function_labels are iterated in the
\* runs of compile_to_executable: by ascending and by descending label id
IterOrders == {"ascending", "descending"}

\* a slip: find() without its predicate returns whichever entry comes first
FindFirstAnyEntry(function_labels, id, iter_order) ==
    IF function_labels = <<>> THEN None
    ELSE Some(function_labels[IF iter_order = "ascending" THEN 1
                              ELSE Len(function_labels)].name)

\* function_labels.iter().find(|(_, id)| **id == *label_id) under an order:
\* the first entry in that order among the ones find() can return
FindFirst(function_labels, id, iter_order) ==
    LET results == FindResults(function_labels, id)
        among == {i \in 1..Len(function_labels) :
                      Some(function_labels[i].name) \in results}
    IN  IF among = {} THEN None
        ELSE Some(function_labels[
                 CHOOSE i \in among : \A j \in among :
                     IF iter_order = "ascending"
                     THEN function_labels[i].id <= function_labels[j].id
                     ELSE function_labels[i].id >= function_labels[j].id].name)

\* the loop over instructions[lo..hi]
RECURSIVE AsmLoop(_, _, _, _, _, _)
AsmLoop(a, ra, instructions, lo, hi, iter_order) ==
    IF lo > hi \/ a.err /= "" THEN a
    ELSE IF lo = hi
    THEN AsmInstr(a, ra, instructions[lo],
                  IF instructions[lo].tag = "Label"
                  THEN FindFirst(a.function_labels, instructions[lo].label, iter_order)
                  ELSE None)
    ELSE LET mid == (lo + hi) \div 2 IN
         AsmLoop(AsmLoop(a, ra, instructions, lo, mid, iter_order),
                 ra, instructions, mid + 1, hi, iter_order)

\* step 3: every forward reference is patched
PatchRefs(a) == PatchAll(a, 1, Len(a.forward_refs))

\* what assemble returns for the Assembler it ends with
AssembleResult(a, ra) ==
    [a |-> a, ra |-> ra, result |-> IF a.err /= "" THEN Err(a.err) ELSE Ok(a.code)]

\* steps 2 to 4 of assemble, given the allocator step 1 built
AssembleWith(a, ra, instructions, iter_order) ==
    AssembleResult(
        resolve_relocations(
            PatchRefs(AsmLoop(AssembleBegin(a), ra, instructions,
                              1, Len(instructions), iter_order))),
        ra)

\* Assembler::assemble: the Assembler afterwards, the allocator it built and
\* the Result it returns
assemble(a, instructions, iter_order) ==
    AssembleWith(a,
                 AllocationPass(RegisterAllocatorNew, instructions,
                                1, Len(instructions)),
                 instructions, iter_order)

-----------------------------------------------------------------------------
(* Assembler::generate_elf and compile_to_executable *)

\* 0x400000
base_addr == 4194304
\* header bytes before the code: 64 (ELF header) + 56 (program header)
ElfHeaderSize == 120

generate_elf(machine_code) ==
    LET entry_point == base_addr + ElfHeaderSize
        total_size == 120 + Len(machine_code)
    IN  <<127, 69, 76, 70, 2, 1, 1, 0>> \o <<0, 0, 0, 0, 0, 0, 0, 0>>
        \o LE16(2) \o LE16(62) \o LE32(1)
        \o LE64(entry_point) \o LE64(64) \o LE64(0) \o LE32(0)
        \o LE16(64) \o LE16(56) \o LE16(1) \o LE16(0) \o LE16(0) \o LE16(0)
        \o LE32(1) \o LE32(5) \o LE64(0) \o LE64(base_addr) \o LE64(base_addr)
        \o LE64(total_size) \o LE64(total_size) \o LE64(4096)
        \o machine_code

-----------------------------------------------------------------------------
(* SpecAlloc: a RegisterAllocator on which allocate is called with          *)
(* arbitrary VRegs.  hist.order lists the VRegs in the order of their first *)
(* allocate; hist.last is the last call with the value it returned and the  *)
(* counter before it.                                                       *)

NoHist == [order |-> <<>>, last |-> None]

InitAlloc ==
    /\ regalloc = RegisterAllocatorNew
    /\ hist = NoHist
    /\ phase = "Alloc"
    /\ prog = 0 /\ accepted = <<>> /\ cg = CodegenNew /\ ir = None
    /\ asm = AssemblerNew /\ pos = 0 /\ mc = None /\ elf = None
    /\ cpu = None /\ runs = 0 /\ prev = None /\ iter = None

Allocate(vreg) ==
    /\ phase = "Alloc"
    /\ LET r == allocate(regalloc, vreg) IN
       /\ regalloc' = r.ra
       /\ hist' = [order |-> IF \E k \in 1..Len(hist.order) : hist.order[k] = vreg
                             THEN hist.order ELSE Append(hist.order, vreg),
                   last |-> Some([vreg |-> vreg, reg |-> r.reg,
                                  index_before |-> regalloc.next_register_index,
                                  mapped_before |-> get_register(regalloc, vreg)])]
    /\ UNCHANGED <<prog, phase, accepted, cg, ir, asm, pos, mc, elf, cpu, runs, prev, iter>>

NextAlloc == \E vreg \in 0..MaxVReg : Allocate(vreg)

SpecAlloc == InitAlloc /\ [][NextAlloc]_vars

\* C9: the k-th distinct VReg (from 0, in order of first allocate) is mapped
\* to pool[k mod 5] with pool = [RBX, RCX, RDX, RSI, RDI]; an allocate of a
\* VReg that was mapped returns the register it had and leaves the counter
\* alone, so the counter is the number of distinct VRegs; two VRegs first
\* allocated one after the other differ, the 1st and the 6th agree, and RAX,
\* RSP, RBP are never handed out.
C9_RoundRobin ==
    phase = "Alloc" =>
    LET order == hist.order
        pool == <<"Rbx", "Rcx", "Rdx", "Rsi", "Rdi">>
    IN  /\ \A k \in 1..Len(order) :
              /\ MapHas(regalloc.allocation, order[k])
              /\ regalloc.allocation[order[k]] = pool[((k - 1) % 5) + 1]
        /\ regalloc.next_register_index = Len(order)
        /\ IsSome(hist.last) =>
              LET l == Unwrap(hist.last) IN
              /\ get_register(regalloc, l.vreg) = Some(l.reg)
              /\ IsSome(l.mapped_before) =>
                    /\ l.reg = Unwrap(l.mapped_before)
                    /\ regalloc.next_register_index = l.index_before
              /\ l.reg \notin {"Rax", "Rsp", "Rbp"}
        /\ \A k \in 1..(Len(order) - 1) :
              regalloc.allocation[order[k]] /= regalloc.allocation[order[k + 1]]
        /\ Len(order) >= 6 =>
              regalloc.allocation[order[1]] = regalloc.allocation[order[6]]
        /\ \A v \in DOMAIN regalloc.allocation :
              regalloc.allocation[v] \notin {"Rax", "Rsp", "Rbp"}

\* six distinct VRegs were allocated and the last call repeated a mapped one
C9_Witness ==
    /\ phase = "Alloc"
    /\ Len(hist.order) >= 6
    /\ IsSome(hist.last)
    /\ IsSome(Unwrap(hist.last).mapped_before)
    /\ Unwrap(hist.last).vreg = hist.order[1]

-----------------------------------------------------------------------------
(* SpecAsm: Assembler::assemble on an arbitrary instruction sequence, one   *)
(* loop iteration per step.                                                 *)

\* the VRegs among the fields of an instruction (enum Instruction)
InstrVRegs(instr) ==
    LET OfValue(val) == IF val.kind = "VReg" THEN {val.vreg} ELSE {}
        OfSeq(s) == {s[i] : i \in 1..Len(s)}
    IN  CASE instr.tag = "Copy" -> {instr.dest} \cup OfValue(instr.src)
          [] instr.tag = "BinaryOp" ->
             {instr.dest} \cup OfValue(instr.lhs) \cup OfValue(instr.rhs)
          [] instr.tag = "Load" -> {instr.dest}
          [] instr.tag = "Store" -> {instr.src}
          [] instr.tag = "Push" -> {instr.src}
          [] instr.tag = "Pop" -> {instr.dest}
          [] instr.tag = "Branch" -> {instr.condition}
          [] instr.tag = "Call" -> OfSeq(instr.dest) \cup OfSeq(instr.args)
          [] instr.tag = "Return" -> OfSeq(instr.value)
          [] instr.tag = "Syscall" ->
             {instr.result, instr.syscall_num} \cup OfSeq(instr.args)
          [] OTHER -> {}

\* the instructions SpecAsm builds its sequences from: every variant occurs
AsmAlphabet ==
    { ICopy(1, VRegV(0)),
      IBinaryOp(2, VRegV(0), VRegV(1), "Add"),
      IBinaryOp(1, Immediate(7), VRegV(2), "Div"),
      ILoad(1, I64Of(8)), IStore(0, I64Of(8)), IPush(2), IPop(1),
      ILabel(1), ILabel(2), IJump(1), IBranch(0, 1, 2),
      ICall(Some(1), "f", <<>>), ICall(None, "h", <<0, 1, 2, 0>>),
      ICall(None, "f", <<0, 1, 2, 0, 1>>), IReturn(Some(0)),
      ISyscall(0, 1, <<2>>),
      ISaveRegisters(<<"Rbx", "Rcx">>), IRestoreRegisters(<<"Rbx", "Rcx">>) }

RECURSIVE SeqsUpTo(_, _)
SeqsUpTo(S, n) ==
    IF n = 0 THEN {<<>>}
    ELSE LET shorter == SeqsUpTo(S, n - 1) IN
         shorter \cup {Append(s, x) : s \in {t \in shorter : Len(t) = n - 1}, x \in S}

\* the function mappings the caller registered before assemble: two names
\* for one label, so that find() has a choice
AsmFunctionLabels ==
    add_function_mapping(add_function_mapping(AssemblerNew, "f", 1), "g", 1)

InitAsm ==
    /\ ir \in {Ok(s) : s \in SeqsUpTo(AsmAlphabet, MaxInstrs)}
    /\ asm = AsmFunctionLabels
    /\ regalloc = RegisterAllocatorNew
    /\ pos = 0
    /\ mc = None
    /\ phase = "AsmStart"
    /\ prog = 0 /\ accepted = <<>> /\ cg = CodegenNew /\ elf = None
    /\ cpu = None /\ runs = 0 /\ prev = None /\ iter = None /\ hist = NoHist

\* step 1 and the clears of step 2
AsmAllocationPass ==
    /\ phase = "AsmStart"
    /\ regalloc' = AllocationPass(RegisterAllocatorNew, ir.value, 1, Len(ir.value))
    /\ asm' = AssembleBegin(asm)
    /\ pos' = 1
    /\ phase' = "AsmEmit"
    /\ UNCHANGED <<prog, accepted, cg, ir, mc, elf, cpu, runs, prev, iter, hist>>

\* one iteration of `for instr in &instructions`
AsmEmitStep ==
    /\ phase = "AsmEmit"
    /\ asm.err = ""
    /\ pos <= Len(ir.value)
    /\ LET instr == ir.value[pos] IN
       \E found \in IF instr.tag = "Label"
                    THEN FindResults(asm.function_labels, instr.label)
                    ELSE {None} :
           asm' = AsmInstr(asm, regalloc, instr, found)
    /\ pos' = pos + 1
    /\ UNCHANGED <<prog, phase, accepted, cg, ir, regalloc, mc, elf, cpu, runs, prev, iter, hist>>

\* a `?` left the loop with an error
AsmEmitFailed ==
    /\ phase = "AsmEmit"
    /\ asm.err /= ""
    /\ mc' = Err(asm.err)
    /\ phase' = "AsmDone"
    /\ UNCHANGED <<prog, accepted, cg, ir, asm, regalloc, pos, elf, cpu, runs, prev, iter, hist>>

\* steps 3 and 4 and the return
AsmPatchAndResolve ==
    /\ phase = "AsmEmit"
    /\ asm.err = ""
    /\ pos > Len(ir.value)
    /\ \E r \in {AssembleResult(resolve_relocations(PatchRefs(asm)), regalloc)} :
           /\ asm' = r.a
           /\ mc' = r.result
    /\ phase' = "AsmDone"
    /\ UNCHANGED <<prog, accepted, cg, ir, regalloc, pos, elf, cpu, runs, prev, iter, hist>>

NextAsm ==
    \/ AsmAllocationPass
    \/ AsmEmitStep
    \/ AsmEmitFailed
    \/ AsmPatchAndResolve

SpecAsm == InitAsm /\ [][NextAsm]_vars

AsmPhases == {"AsmEmit", "AsmDone"}

\* C6: after the allocation pass of assemble every VReg that is a destination
\* or an operand of any instruction of the sequence has a physical register
\* in the allocator's map, and emission never fails with "No register
\* allocated".
C6_AllVRegsAllocated ==
    phase \in AsmPhases =>
        /\ \A i \in 1..Len(ir.value) : \A v \in InstrVRegs(ir.value[i]) :
               IsSome(get_register(regalloc, v))
        /\ asm.err /= NoRegister
        /\ mc /= Err(NoRegister)

\* the pass ran over a sequence with a BinaryOp on two VRegs, a Push and a
\* Branch, and all of it was emitted
C6_Witness ==
    /\ phase = "AsmDone"
    /\ pos > Len(ir.value)
    /\ \E i, j, k \in 1..Len(ir.value) :
          /\ ir.value[i] = IBinaryOp(2, VRegV(0), VRegV(1), "Add")
          /\ ir.value[j].tag = "Push"
          /\ ir.value[k].tag = "Branch"

\* the instructions the loop has handled so far
Handled == 1..(pos - 1)

\* where the bytes of the first non-Label instruction after i start; the code
\* length when the loop has not handled such an instruction
NextStart(i) ==
    LET later == {j \in Handled : j > i /\ ir.value[j].tag /= "Label"} IN
    IF later = {} THEN Len(asm.code)
    ELSE asm.instr_start[CHOOSE j \in later : \A k \in later : j <= k]

\* C7: a Label appends no bytes; the offset label_positions holds for it is
\* the offset at which the bytes of the next non-Label instruction start, or
\* the code length when none follows; consecutive Labels record one offset.
C7_LabelOffsets ==
    phase \in AsmPhases =>
    \A i \in Handled : ir.value[i].tag = "Label" =>
        /\ IF i + 1 \in Handled THEN asm.instr_start[i + 1] = asm.instr_start[i]
           ELSE Len(asm.code) = asm.instr_start[i]
        /\ (\A j \in Handled : j > i => ir.value[j] /= ir.value[i]) =>
              /\ MapHas(asm.label_positions, ir.value[i].label)
              /\ asm.label_positions[ir.value[i].label] = NextStart(i)
        /\ (i + 1 \in Handled /\ ir.value[i + 1].tag = "Label"
            /\ ir.value[i + 1].label /= ir.value[i].label
            /\ \A j \in Handled : j > i + 1 => ir.value[j].tag /= "Label") =>
              asm.label_positions[ir.value[i].label]
                  = asm.label_positions[ir.value[i + 1].label]

\* two Labels in a row, then an instruction that emits bytes
C7_Witness ==
    /\ phase = "AsmDone"
    /\ Len(ir.value) >= 3
    /\ pos > Len(ir.value)
    /\ \E i \in 1..(Len(ir.value) - 2) :
          /\ ir.value[i] = ILabel(1)
          /\ ir.value[i + 1] = ILabel(2)
          /\ ir.value[i + 2].tag = "Copy"
    /\ asm.label_positions[1] = asm.label_positions[2]

-----------------------------------------------------------------------------
(* The machine that runs the emitted code: the x86-64 instructions that     *)
(* emit_targetir_instruction and assemble encode, decoded from the bytes.   *)
(* A cpu is the registers, the stack (top last), the program counter as an  *)
(* offset into the code, the operands of the last cmp, and a status.        *)

\* the inverse of register_code on the registers without REX extension
RegOfCode(code) ==
    CASE code = 0 -> "Rax" [] code = 1 -> "Rcx" [] code = 2 -> "Rdx"
      [] code = 3 -> "Rbx" [] code = 4 -> "Rsp" [] code = 5 -> "Rbp"
      [] code = 6 -> "Rsi" [] code = 7 -> "Rdi"

CpuRegisters == {"Rax", "Rbx", "Rcx", "Rdx", "Rsp", "Rbp", "Rsi", "Rdi"}

\* the process as the kernel starts it at the entry point
CpuStart ==
    [regs |-> [r \in CpuRegisters |-> 0], stack |-> <<>>, pc |-> 0,
     cmp |-> [lhs |-> 0, rhs |-> 0], status |-> "running", exit_code |-> 0]

\* the byte at pc + k, or -1 past the end of the code
ByteAt(code, pc, k) == IF pc + k < Len(code) /\ pc + k >= 0 THEN code[pc + k + 1] ELSE -1

Rel32At(code, pc, k) ==
    DecodeLE32(<<ByteAt(code, pc, k), ByteAt(code, pc, k + 1),
                 ByteAt(code, pc, k + 2), ByteAt(code, pc, k + 3)>>)

\* imm64 whose upper half is zero
Imm64At(code, pc, k) == Rel32At(code, pc, k)

Fault(c) == [c EXCEPT !.status = "fault"]

SetReg(c, reg, val, len) == [c EXCEPT !.regs[reg] = val, !.pc = @ + len]

\* the instructions that start with REX.W (0x48)
StepRexW(code, c) ==
    LET b1 == ByteAt(code, c.pc, 1)
        b2 == ByteAt(code, c.pc, 2)
        b3 == ByteAt(code, c.pc, 3)
        \* ModR/M with mod = 11
        reg2 == RegOfCode((b2 - 192) \div 8)
        rm2 == RegOfCode((b2 - 192) % 8)
        reg3 == RegOfCode((b3 - 192) \div 8)
        rm3 == RegOfCode((b3 - 192) % 8)
    IN
    CASE b1 = 137 /\ b2 >= 192 ->                       \* mov rm, reg
         SetReg(c, rm2, c.regs[reg2], 3)
      [] b1 = 1 /\ b2 >= 192 ->                         \* add rm, reg
         SetReg(c, rm2, c.regs[rm2] + c.regs[reg2], 3)
      [] b1 = 41 /\ b2 >= 192 ->                        \* sub rm, reg
         SetReg(c, rm2, c.regs[rm2] - c.regs[reg2], 3)
      [] b1 = 57 /\ b2 >= 192 ->                        \* cmp rm, reg
         [c EXCEPT !.cmp = [lhs |-> c.regs[rm2], rhs |-> c.regs[reg2]], !.pc = @ + 3]
      [] b1 = 15 /\ b2 = 175 /\ b3 >= 192 ->            \* imul reg, rm
         SetReg(c, reg3, c.regs[reg3] * c.regs[rm3], 4)
      [] b1 = 15 /\ b2 = 182 /\ b3 >= 192 ->            \* movzx reg, rm8
         SetReg(c, reg3, c.regs[rm3] % 256, 4)
      [] b1 = 131 /\ b2 >= 248 ->                       \* cmp rm, imm8
         [c EXCEPT !.cmp = [lhs |-> c.regs[RegOfCode(b2 - 248)], rhs |-> b3],
                   !.pc = @ + 4]
      [] b1 >= 184 /\ b1 <= 191 ->                      \* mov reg, imm64
         SetReg(c, RegOfCode(b1 - 184), Imm64At(code, c.pc, 2), 10)
      [] b1 = 139 /\ b2 >= 128 /\ b2 < 192 /\ b2 % 8 = 4 /\ b3 = 36 ->
         \* mov reg, [rsp + disp32]
         LET slot == Rel32At(code, c.pc, 4) IN
         IF slot % 8 = 0 /\ slot >= 0 /\ slot \div 8 < Len(c.stack)
         THEN SetReg(c, RegOfCode((b2 - 128) \div 8),
                     c.stack[Len(c.stack) - slot \div 8], 8)
         ELSE Fault(c)
      [] b1 = 137 /\ b2 >= 128 /\ b2 < 192 /\ b2 % 8 = 4 /\ b3 = 36 ->
         \* mov [rsp + disp32], reg
         LET slot == Rel32At(code, c.pc, 4) IN
         IF slot % 8 = 0 /\ slot >= 0 /\ slot \div 8 < Len(c.stack)
         THEN [c EXCEPT !.stack[Len(c.stack) - slot \div 8] =
                            c.regs[RegOfCode((b2 - 128) \div 8)],
                        !.pc = @ + 8]
         ELSE Fault(c)
      [] OTHER -> Fault(c)

\* the instructions that start with 0x0f
Step0F(code, c) ==
    LET b1 == ByteAt(code, c.pc, 1)
        b2 == ByteAt(code, c.pc, 2)
        al(bit) == (c.regs["Rax"] \div 256) * 256 + bit
    IN
    CASE b1 = 158 /\ b2 = 192 ->                        \* setle al
         SetReg(c, "Rax", al(IF c.cmp.lhs <= c.cmp.rhs THEN 1 ELSE 0), 3)
      [] b1 = 159 /\ b2 = 192 ->                        \* setg al
         SetReg(c, "Rax", al(IF c.cmp.lhs > c.cmp.rhs THEN 1 ELSE 0), 3)
      [] b1 = 133 ->                                    \* jne rel32
         IF c.cmp.lhs /= c.cmp.rhs
         THEN [c EXCEPT !.pc = @ + 6 + Rel32At(code, c.pc, 2)]
         ELSE [c EXCEPT !.pc = @ + 6]
      [] b1 = 5 ->                                      \* syscall
         IF c.regs["Rax"] = 60
         THEN [c EXCEPT !.status = "exited", !.exit_code = c.regs["Rdi"] % 256]
         ELSE Fault(c)
      [] OTHER -> Fault(c)

\* one instruction of the process
CpuStep(code, c) ==
    LET b0 == ByteAt(code, c.pc, 0) IN
    CASE b0 = 72 -> StepRexW(code, c)
      [] b0 = 15 -> Step0F(code, c)
      [] b0 = 232 ->                                    \* call rel32
         IF Len(c.stack) >= MaxStack THEN Fault(c)
         ELSE [c EXCEPT !.stack = Append(@, c.pc + 5),
                        !.pc = @ + 5 + Rel32At(code, c.pc, 1)]
      [] b0 = 233 ->                                    \* jmp rel32
         [c EXCEPT !.pc = @ + 5 + Rel32At(code, c.pc, 1)]
      [] b0 = 195 ->                                    \* ret
         IF c.stack = <<>> THEN Fault(c)
         ELSE [c EXCEPT !.pc = c.stack[Len(c.stack)],
                        !.stack = SubSeq(@, 1, Len(@) - 1)]
      [] b0 >= 80 /\ b0 <= 87 ->                        \* push reg
         IF Len(c.stack) >= MaxStack THEN Fault(c)
         ELSE [c EXCEPT !.stack = Append(@, c.regs[RegOfCode(b0 - 80)]),
                        !.pc = @ + 1]
      [] b0 >= 88 /\ b0 <= 95 ->                        \* pop reg
         IF c.stack = <<>> THEN Fault(c)
         ELSE [c EXCEPT !.regs[RegOfCode(b0 - 88)] = c.stack[Len(c.stack)],
                        !.stack = SubSeq(@, 1, Len(@) - 1),
                        !.pc = @ + 1]
      [] OTHER -> Fault(c)

-----------------------------------------------------------------------------
(* The reference: a tree-walking interpreter of the AST.  Variables are     *)
(* function-wide (a block opens no scope, as in the front end); a missing   *)
(* trailing expression, a missing else and a while loop have the value 0;   *)
(* comparisons give 0 or 1 and a condition holds when it is not 0.          *)

FunctionNamed(items, name) ==
    items[CHOOSE i \in 1..Len(items) :
              /\ IsFunctionNamed(items[i], name)
              /\ \A j \in 1..(i - 1) : ~IsFunctionNamed(items[j], name)]

InterpBinary(operator, l, r) ==
    CASE operator = "Plus" -> l + r
      [] operator = "Minus" -> l - r
      [] operator = "Star" -> l * r
      [] operator = "Slash" -> l \div r
      [] operator = "Percent" -> l % r
      [] operator = "Less" -> IF l < r THEN 1 ELSE 0
      [] operator = "LessEqual" -> IF l <= r THEN 1 ELSE 0
      [] operator = "Greater" -> IF l > r THEN 1 ELSE 0
      [] operator = "GreaterEqual" -> IF l >= r THEN 1 ELSE 0
      [] operator = "Equal" -> IF l = r THEN 1 ELSE 0
      [] operator = "NotEqual" -> IF l /= r THEN 1 ELSE 0

RECURSIVE InterpExpr(_, _, _)
RECURSIVE InterpStatements(_, _, _, _)
RECURSIVE InterpWhile(_, _, _, _)

\* a block: the environment after it and its value
InterpBlock(items, env, block) ==
    LET e1 == InterpStatements(items, env, block.statements, 1) IN
    IF IsSome(block.final_expr)
    THEN InterpExpr(items, e1, Unwrap(block.final_expr))
    ELSE [env |-> e1, val |-> 0]

InterpStatements(items, env, stmts, i) ==
    IF i > Len(stmts) THEN env
    ELSE LET stmt == stmts[i]
             r == InterpExpr(items, env,
                             IF stmt.kind = "Expression" THEN stmt.expression
                             ELSE stmt.value)
             e1 == IF stmt.kind = "Expression" THEN r.env
                   ELSE MapInsert(r.env, stmt.name, r.val)
         IN  InterpStatements(items, e1, stmts, i + 1)

InterpWhile(items, env, expr, fuel) ==
    LET c == InterpExpr(items, env, expr.condition) IN
    IF c.val = 0 \/ fuel = 0 THEN [env |-> c.env, val |-> 0]
    ELSE InterpWhile(items, InterpBlock(items, c.env, expr.body).env, expr, fuel - 1)

InterpExpr(items, env, expr) ==
    CASE expr.kind = "Literal" -> [env |-> env, val |-> expr.value]
      [] expr.kind = "Identifier" -> [env |-> env, val |-> env[expr.name]]
      [] expr.kind = "Binary" ->
         LET l == InterpExpr(items, env, expr.left)
             r == InterpExpr(items, l.env, expr.right)
         IN  [env |-> r.env, val |-> InterpBinary(expr.operator, l.val, r.val)]
      [] expr.kind = "Call" ->
         LET func == FunctionNamed(items, expr.function.name)
             arg == IF Len(expr.args) >= 1
                    THEN InterpExpr(items, env, expr.args[1])
                    ELSE [env |-> env, val |-> 0]
             callee_env == IF Len(func.params) >= 1
                           THEN MapInsert(EmptyMap, func.params[1], arg.val)
                           ELSE EmptyMap
         IN  [env |-> arg.env, val |-> InterpBlock(items, callee_env, func.body).val]
      [] expr.kind = "If" ->
         LET c == InterpExpr(items, env, expr.condition) IN
         IF c.val /= 0 THEN InterpBlock(items, c.env, expr.then_block)
         ELSE IF ~IsSome(expr.else_clause) THEN [env |-> c.env, val |-> 0]
         ELSE LET ec == Unwrap(expr.else_clause) IN
              IF ec.body = "Block" THEN InterpBlock(items, c.env, ec.block)
              ELSE InterpExpr(items, c.env, ec.nested)
      [] expr.kind = "While" -> InterpWhile(items, env, expr, MaxLoop)

\* the value main returns
InterpMain(items) ==
    InterpBlock(items, EmptyMap, FunctionNamed(items, "main").body).val

\* the exit status the reference gives: the low 8 bits of that value
ReferenceExit(items) == InterpMain(items) % 256

-----------------------------------------------------------------------------
(* The programs compiled.  Each is a CstRoot: the sequence of its items.    *)

\* fn main() { 42 }
ProgSimple == <<Fn("main", <<>>, Block(<<>>, Some(Lit(42))))>>

\* fn main() { 2 + 3 * 4 }
ProgArith ==
    <<Fn("main", <<>>,
         Block(<<>>, Some(Bin(Lit(2), "Plus", Bin(Lit(3), "Star", Lit(4))))))>>

\* fn id(x) { x } fn main() { id(7) }
ProgId ==
    <<Fn("id", <<"x">>, Block(<<>>, Some(Id("x")))),
      Fn("main", <<>>, Block(<<>>, Some(CallE("id", <<Lit(7)>>))))>>

\* fn factorial(n) { if n <= 1 { 1 } else { n * factorial(n - 1) } }
\* fn main() { factorial(5) }
ProgFactorial ==
    <<Fn("factorial", <<"n">>,
         Block(<<>>,
               Some(IfE(Bin(Id("n"), "LessEqual", Lit(1)),
                        Block(<<>>, Some(Lit(1))),
                        ElseBlock(Block(<<>>,
                            Some(Bin(Id("n"), "Star",
                                     CallE("factorial",
                                           <<Bin(Id("n"), "Minus", Lit(1))>>))))))))),
      Fn("main", <<>>, Block(<<>>, Some(CallE("factorial", <<Lit(5)>>))))>>

\* fn main() { let x = 10; x = x + 5; x }
ProgAssign ==
    <<Fn("main", <<>>,
         Block(<<LetS("x", Lit(10)), AssignS("x", Bin(Id("x"), "Plus", Lit(5)))>>,
               Some(Id("x"))))>>

\* fn main() { if 3 > 2 { 9 } else { 0 } }
ProgIf ==
    <<Fn("main", <<>>,
         Block(<<>>, Some(IfE(Bin(Lit(3), "Greater", Lit(2)),
                              Block(<<>>, Some(Lit(9))),
                              ElseBlock(Block(<<>>, Some(Lit(0)))))))) >>

\* fn helper() { 1 }                                  (no main)
ProgNoMain == <<Fn("helper", <<>>, Block(<<>>, Some(Lit(1))))>>

\* let g = 1; fn helper(x) { x } fn other() { helper(2) }   (no main)
ProgNoMainTop ==
    <<TopStmt(LetS("g", Lit(1))),
      Fn("helper", <<"x">>, Block(<<>>, Some(Id("x")))),
      Fn("other", <<>>, Block(<<>>, Some(CallE("helper", <<Lit(2)>>))))>>

\* the empty source file
ProgEmpty == <<>>

\* fn main() { let a = 1; let b = 2; let c = 3; let d = 4; let e = 5;
\*             let f = 6; a }
ProgSixLets ==
    <<Fn("main", <<>>,
         Block(<<LetS("a", Lit(1)), LetS("b", Lit(2)), LetS("c", Lit(3)),
                 LetS("d", Lit(4)), LetS("e", Lit(5)), LetS("f", Lit(6))>>,
               Some(Id("a"))))>>

\* fn f(x) { x } fn main() { let a = 5; let b = f(1); a }
ProgLetAcrossCall ==
    <<Fn("f", <<"x">>, Block(<<>>, Some(Id("x")))),
      Fn("main", <<>>,
         Block(<<LetS("a", Lit(5)), LetS("b", CallE("f", <<Lit(1)>>))>>,
               Some(Id("a"))))>>

\* fn main() { 8 / 2 }
ProgDivide ==
    <<Fn("main", <<>>, Block(<<>>, Some(Bin(Lit(8), "Slash", Lit(2)))))>>

\* fn main() { 1 < 2 }
ProgLess ==
    <<Fn("main", <<>>, Block(<<>>, Some(Bin(Lit(1), "Less", Lit(2)))))>>

\* let g = 1; fn main() { g }
ProgGlobal ==
    <<TopStmt(LetS("g", Lit(1))),
      Fn("main", <<>>, Block(<<>>, Some(Id("g"))))>>

\* fn main() { y }                                    (rejected by the front end)
ProgUndefined == <<Fn("main", <<>>, Block(<<>>, Some(Id("y"))))>>

\* fn main() { let i = 0; while i <= 2 { i = i + 1; } i }
ProgWhile ==
    <<Fn("main", <<>>,
         Block(<<LetS("i", Lit(0)),
                 ExprS(WhileE(Bin(Id("i"), "LessEqual", Lit(2)),
                              Block(<<AssignS("i", Bin(Id("i"), "Plus", Lit(1)))>>,
                                    None)))>>,
               Some(Id("i"))))>>

\* fn main() { let x = 1; if 1 > 2 { x = 5; } x }
ProgIfRebind ==
    <<Fn("main", <<>>,
         Block(<<LetS("x", Lit(1)),
                 ExprS(IfE(Bin(Lit(1), "Greater", Lit(2)),
                           Block(<<AssignS("x", Lit(5))>>, None),
                           None))>>,
               Some(Id("x"))))>>

\* fn label_2() { 7 } fn _start() { 9 } fn main() { label_2() }
ProgLabelName ==
    <<Fn("label_2", <<>>, Block(<<>>, Some(Lit(7)))),
      Fn("_start", <<>>, Block(<<>>, Some(Lit(9)))),
      Fn("main", <<>>, Block(<<>>, Some(CallE("label_2", <<>>))))>>

\* let g = 8 / 2; fn main() { 0 }
ProgTopDivide ==
    <<TopStmt(LetS("g", Bin(Lit(8), "Slash", Lit(2)))),
      Fn("main", <<>>, Block(<<>>, Some(Lit(0))))>>

\* fn main() { 9 <= if 1 > 2 { let q = 1; 5 } else { if 1 { 6 } else { 7 } } }
ProgCompareIf ==
    <<Fn("main", <<>>,
         Block(<<>>,
               Some(Bin(Lit(9), "LessEqual",
                        IfE(Bin(Lit(1), "Greater", Lit(2)),
                            Block(<<LetS("q", Lit(1))>>, Some(Lit(5))),
                            ElseBlock(Block(<<>>,
                                Some(IfE(Lit(1),
                                         Block(<<>>, Some(Lit(6))),
                                         ElseBlock(Block(<<>>, Some(Lit(7)))))))))))))>>

\* fn one() { 1 }
\* fn main() { (2 + if 1 > 2 { 0 } else { let t = one(); t })
\*                 + (3 + while 0 > 1 { one(); }) }
ProgSpillNested ==
    <<Fn("one", <<>>, Block(<<>>, Some(Lit(1)))),
      Fn("main", <<>>,
         Block(<<>>,
               Some(Bin(Bin(Lit(2), "Plus",
                            IfE(Bin(Lit(1), "Greater", Lit(2)),
                                Block(<<>>, Some(Lit(0))),
                                ElseBlock(Block(<<LetS("t", CallE("one", <<>>))>>,
                                                Some(Id("t")))))),
                        "Plus",
                        Bin(Lit(3), "Plus",
                            WhileE(Bin(Lit(0), "Greater", Lit(1)),
                                   Block(<<ExprS(CallE("one", <<>>))>>, None)))))))>>

\* fn f() { 2 } fn main() { f() } fn g() { 3 } fn main() { 4 }
ProgTwoMains ==
    <<Fn("f", <<>>, Block(<<>>, Some(Lit(2)))),
      Fn("main", <<>>, Block(<<>>, Some(CallE("f", <<>>)))),
      Fn("g", <<>>, Block(<<>>, Some(Lit(3)))),
      Fn("main", <<>>, Block(<<>>, Some(Lit(4))))>>

\* fn main() { 1 + (2 + (3 + 4)) }
ProgDeepRight ==
    <<Fn("main", <<>>,
         Block(<<>>,
               Some(Bin(Lit(1), "Plus",
                        Bin(Lit(2), "Plus", Bin(Lit(3), "Plus", Lit(4)))))))>>

\* fn main() { let a = if 0 { 1 } else if 2 { 3 } else { 4 };
\*             let b = if 0 { 5 };
\*             let c = if a { a = 7; } else { 8 };
\*             a + b + c }
ProgElseIf ==
    <<Fn("main", <<>>,
         Block(<<LetS("a", IfE(Lit(0), Block(<<>>, Some(Lit(1))),
                               ElseIf(IfE(Lit(2), Block(<<>>, Some(Lit(3))),
                                          ElseBlock(Block(<<>>, Some(Lit(4)))))))),
                 LetS("b", IfE(Lit(0), Block(<<>>, Some(Lit(5))), None)),
                 LetS("c", IfE(Id("a"), Block(<<AssignS("a", Lit(7))>>, None),
                               ElseBlock(Block(<<>>, Some(Lit(8))))))>>,
               Some(Bin(Bin(Id("a"), "Plus", Id("b")), "Plus", Id("c")))))>>

\* fn main() { let n = 3; while n > 0 { n = n - 1; } n }
ProgCountdown ==
    <<Fn("main", <<>>,
         Block(<<LetS("n", Lit(3)),
                 ExprS(WhileE(Bin(Id("n"), "Greater", Lit(0)),
                              Block(<<AssignS("n", Bin(Id("n"), "Minus", Lit(1)))>>,
                                    None)))>>,
               Some(Id("n"))))>>

\* fn main() { 0 } fn f2() { 0 } ... fn f<MaxFunctions>() { 0 }
ProgManyFunctions ==
    [i \in 1..MaxFunctions |->
        Fn(IF i = 1 THEN "main" ELSE "f" \o ToString(i), <<>>,
           Block(<<>>, Some(Lit(0))))]

Programs ==
    <<ProgSimple, ProgArith, ProgId, ProgFactorial, ProgAssign, ProgIf,
      ProgNoMain, ProgNoMainTop, ProgEmpty, ProgSixLets, ProgLetAcrossCall,
      ProgDivide, ProgLess, ProgGlobal, ProgUndefined, ProgManyFunctions,
      ProgWhile, ProgIfRebind, ProgLabelName, ProgTopDivide, ProgCompareIf,
      ProgSpillNested, ProgTwoMains, ProgDeepRight, ProgElseIf, ProgCountdown>>

-----------------------------------------------------------------------------
(* Spec: analyze_cst, then compile_to_executable twice (each run with fresh *)
(* Codegen and Assembler), then the process started from the image.         *)

\* `for (name, label_id) in &codegen.function_labels { add_function_mapping }`:
\* every entry is inserted (entries lo..hi of the map)
RECURSIVE AddFunctionMappings(_, _, _, _)
AddFunctionMappings(a, function_labels, lo, hi) ==
    IF lo > hi \/ a.err /= "" THEN a
    ELSE IF lo = hi
    THEN add_function_mapping(a, function_labels[lo].name, function_labels[lo].id)
    ELSE LET mid == (lo + hi) \div 2 IN
         AddFunctionMappings(AddFunctionMappings(a, function_labels, lo, mid),
                             function_labels, mid + 1, hi)

\* the end of compile_to_executable: generate_elf on what assemble returned
Executable(g, r) ==
    [cg |-> g.c, ir |-> g.result, asm |-> r.a, regalloc |-> r.ra,
     mc |-> Some(r.result),
     elf |-> IF r.result.ok THEN Ok(generate_elf(r.result.value))
             ELSE Err(r.result.err)]

\* compile_to_executable after generate: `?`, then the Assembler is built,
\* given the function labels and run
AssembleGenerated(g, iter_order) ==
    IF ~g.result.ok
    THEN [cg |-> g.c, ir |-> g.result, asm |-> AssemblerNew,
          regalloc |-> RegisterAllocatorNew, mc |-> None,
          elf |-> Err(g.result.err)]
    ELSE Executable(g, assemble(AddFunctionMappings(AssemblerNew,
                                                    g.c.function_labels, 1,
                                                    Len(g.c.function_labels)),
                                g.result.value, iter_order))

\* compile_to_executable: every struct afterwards and the Result
compile_to_executable(items, iter_order) ==
    AssembleGenerated(generate(CodegenNew, items), iter_order)

Init ==
    /\ prog \in 1..Len(Programs)
    /\ phase = "Source"
    /\ accepted = <<>>
    /\ cg = CodegenNew /\ ir = None /\ asm = AssemblerNew
    /\ regalloc = RegisterAllocatorNew /\ pos = 0 /\ mc = None /\ elf = None
    /\ cpu = None /\ runs = 0 /\ prev = None /\ iter = None /\ hist = NoHist

Analyze ==
    /\ phase = "Source"
    /\ accepted' = <<analyze_cst(Programs[prog])>>
    /\ phase' = "Analyzed"
    /\ UNCHANGED <<prog, cg, ir, asm, regalloc, pos, mc, elf, cpu, runs, prev, iter, hist>>

CompileRun(iter_order) ==
    \E r \in {compile_to_executable(Programs[prog], iter_order)} :
    /\ cg' = r.cg /\ ir' = r.ir /\ asm' = r.asm /\ regalloc' = r.regalloc
    /\ mc' = r.mc /\ elf' = r.elf
    /\ iter' = Some(iter_order)
    /\ runs' = runs + 1
    /\ prev' = IF runs = 0 THEN None ELSE Some([elf |-> elf, iter |-> Unwrap(iter)])
    /\ phase' = "Compiled"
    /\ UNCHANGED <<prog, accepted, pos, cpu, hist>>

\* the first run
Compile ==
    /\ phase = "Analyzed"
    /\ \E iter_order \in IterOrders : CompileRun(iter_order)

\* a second run on the same input
CompileAgain ==
    /\ phase = "Compiled"
    /\ runs = 1
    /\ \E iter_order \in IterOrders : CompileRun(iter_order)

\* the image: entry point and code of an ELF file produced by generate_elf
ElfEntry(bytes) == DecodeLE32(SubSeq(bytes, 25, 28))
ElfCode(bytes) == SubSeq(bytes, ElfHeaderSize + 1, Len(bytes))

\* the entry point as an offset into the code
EntryOffset(bytes) == ElfEntry(bytes) - base_addr - ElfHeaderSize

\* the VRegs an instruction reads and the VRegs it writes
InstrReads(instr) ==
    LET OfValue(val) == IF val.kind = "VReg" THEN {val.vreg} ELSE {}
        OfSeq(s) == {s[i] : i \in 1..Len(s)}
    IN  CASE instr.tag = "Copy" -> OfValue(instr.src)
          [] instr.tag = "BinaryOp" -> OfValue(instr.lhs) \cup OfValue(instr.rhs)
          [] instr.tag = "Store" -> {instr.src}
          [] instr.tag = "Push" -> {instr.src}
          [] instr.tag = "Branch" -> {instr.condition}
          [] instr.tag = "Call" -> OfSeq(instr.args)
          [] instr.tag = "Return" -> OfSeq(instr.value)
          [] instr.tag = "Syscall" -> {instr.syscall_num} \cup OfSeq(instr.args)
          [] OTHER -> {}

InstrWrites(instr) ==
    CASE instr.tag \in {"Copy", "BinaryOp", "Load", "Pop"} -> {instr.dest}
      [] instr.tag = "Call" -> {instr.dest[i] : i \in 1..Len(instr.dest)}
      [] instr.tag = "Syscall" -> {instr.result}
      [] OTHER -> {}

\* the offset after the bytes of the k-th instruction
InstrEnd(instr_start, code, k) ==
    IF k < Len(instr_start) THEN instr_start[k + 1] ELSE Len(code)

\* the instructions whose bytes hold the offset pc (at most one)
InstrAt(instr_start, code, pc) ==
    {k \in 1..Len(instr_start) :
        instr_start[k] <= pc /\ pc < InstrEnd(instr_start, code, k)}

\* what is remembered of a run: for every stack slot the offset of the call
\* or push instruction that wrote it; RAX at the ret that went back to the
\* instruction after the call of the shell; the index of the instruction
\* whose bytes the machine left last (0 at the start; a call instruction
\* leaves its bytes only for the callee) and whether the last step left
\* them, and for every VReg the value its
\* register held when the machine left an instruction that writes it
RunHistStart ==
    [writers |-> <<>>, main_rax |-> None, left |-> FALSE, done |-> 0, vregs |-> EmptyMap]

\* the instruction whose bytes the step from c to `after` leaves, as a set
\* of at most one index
Leaves(code, c, after, instr_start) ==
    {k \in InstrAt(instr_start, code, c.pc) :
        /\ ~(instr_start[k] <= after.pc /\ after.pc < InstrEnd(instr_start, code, k))
        /\ ByteAt(code, c.pc, 0) /= 232}

\* the VReg values after a step that left `instr`
VRegsWritten(vregs, instr, allocation, after) ==
    [v \in DOMAIN vregs \cup InstrWrites(instr) |->
        IF v \in InstrWrites(instr) THEN after.regs[allocation[v]] ELSE vregs[v]]

RunHistStep(code, c, after, h, shell_return, instrs, leaves, allocation) ==
    [writers |->
         IF Len(after.stack) = Len(c.stack) + 1 THEN Append(h.writers, c.pc)
         ELSE IF Len(after.stack) = Len(c.stack) - 1
         THEN SubSeq(h.writers, 1, Len(h.writers) - 1)
         ELSE h.writers,
     main_rax |->
         IF ByteAt(code, c.pc, 0) = 195 /\ after.status = "running"
                /\ after.pc = shell_return
         THEN Some(c.regs["Rax"])
         ELSE h.main_rax,
     left |-> leaves /= {},
     done |-> IF leaves /= {} THEN CHOOSE k \in leaves : TRUE ELSE h.done,
     vregs |->
         IF leaves /= {}
         THEN VRegsWritten(h.vregs, instrs[CHOOSE k \in leaves : TRUE], allocation, after)
         ELSE h.vregs]

\* the kernel maps the file at base_addr and starts at e_entry
Load ==
    /\ phase = "Compiled"
    /\ runs = 2
    /\ elf.ok
    /\ cpu' = Some([CpuStart EXCEPT !.pc = EntryOffset(elf.value)])
    /\ hist' = RunHistStart
    /\ phase' = "Running"
    /\ UNCHANGED <<prog, accepted, cg, ir, asm, regalloc, pos, mc, elf, runs, prev, iter>>

ExecStep ==
    /\ phase = "Running"
    /\ Unwrap(cpu).status = "running"
    /\ cpu' = Some(CpuStep(ElfCode(elf.value), Unwrap(cpu)))
    /\ \E leaves \in {Leaves(ElfCode(elf.value), Unwrap(cpu), Unwrap(cpu'),
                               asm.instr_start)} :
           hist' = RunHistStep(ElfCode(elf.value), Unwrap(cpu), Unwrap(cpu'), hist,
                               EntryOffset(elf.value) + 5, ir.value, leaves,
                               regalloc.allocation)
    /\ UNCHANGED <<prog, phase, accepted, cg, ir, asm, regalloc, pos, mc, elf, runs, prev, iter>>

Next ==
    \/ Analyze
    \/ Compile
    \/ CompileAgain
    \/ Load
    \/ ExecStep

Spec == Init /\ [][Next]_vars

-----------------------------------------------------------------------------
(* The source surface the lowering is documented to support.                *)

SurfaceOperators == {"Plus", "Minus", "Star", "LessEqual", "Greater"}

RECURSIVE ExprInSurface(_)
RECURSIVE StatementsInSurface(_, _)

BlockInSurface(block) ==
    /\ StatementsInSurface(block.statements, 1)
    /\ IsSome(block.final_expr) => ExprInSurface(Unwrap(block.final_expr))

StatementsInSurface(stmts, i) ==
    \/ i > Len(stmts)
    \/ /\ ExprInSurface(IF stmts[i].kind = "Expression" THEN stmts[i].expression
                        ELSE stmts[i].value)
       /\ StatementsInSurface(stmts, i + 1)

ExprInSurface(expr) ==
    CASE expr.kind = "Literal" -> TRUE
      [] expr.kind = "Identifier" -> TRUE
      [] expr.kind = "Binary" ->
         /\ expr.operator \in SurfaceOperators
         /\ ExprInSurface(expr.left)
         /\ ExprInSurface(expr.right)
      [] expr.kind = "Call" ->
         /\ Len(expr.args) <= 1
         /\ \A i \in 1..Len(expr.args) : ExprInSurface(expr.args[i])
      [] expr.kind = "If" ->
         /\ ExprInSurface(expr.condition)
         /\ BlockInSurface(expr.then_block)
         /\ IsSome(expr.else_clause) =>
                IF Unwrap(expr.else_clause).body = "Block"
                THEN BlockInSurface(Unwrap(expr.else_clause).block)
                ELSE ExprInSurface(Unwrap(expr.else_clause).nested)
      [] expr.kind = "While" ->
         /\ ExprInSurface(expr.condition)
         /\ BlockInSurface(expr.body)

\* functions only, each of at most one parameter, over the supported forms
InSurface(items) ==
    \A i \in 1..Len(items) :
        /\ items[i].kind = "Function"
        /\ Len(items[i].params) <= 1
        /\ BlockInSurface(items[i].body)

\* the run of the image has ended
Terminated == phase = "Running" /\ Unwrap(cpu).status /= "running"

\* C1: a program of the supported surface that the front end accepts and
\* that has main, once compiled and run, ends in the exit syscall with the
\* low 8 bits of the value the tree-walking interpreter computes for main.
C1_ExitMatchesInterpreter ==
    (/\ Terminated
     /\ accepted = <<TRUE>>
     /\ HasMain(Programs[prog])
     /\ InSurface(Programs[prog])) =>
        /\ Unwrap(cpu).status = "exited"
        /\ Unwrap(cpu).exit_code = ReferenceExit(Programs[prog])

\* the four bytes 7F 45 4C 46
ElfMagic == <<127, 69, 76, 70>>

\* C2: for a program the front end accepts and that has a function named
\* main, compile_to_executable returns Ok with bytes that begin with
\* 7F 45 4C 46, never an error.
C2_AcceptedCompiles ==
    (/\ phase = "Compiled"
     /\ accepted = <<TRUE>>
     /\ HasMain(Programs[prog])) =>
        /\ elf.ok
        /\ Len(elf.value) >= 4
        /\ SubSeq(elf.value, 1, 4) = ElfMagic

\* C3: for a program with no function named main, whatever else it has,
\* generate and compile_to_executable return an error, and neither IR nor
\* machine code nor ELF bytes reach the caller.
C3_NoMainIsError ==
    (phase = "Compiled" /\ ~HasMain(Programs[prog])) =>
        /\ ~ir.ok /\ ir.err /= "" /\ ir.value = <<>>
        /\ mc = None
        /\ ~elf.ok /\ elf.err = ir.err /\ elf.value = <<>>

\* a program of two functions and a top-level statement, none named main,
\* was refused
C3_Witness ==
    /\ phase = "Compiled"
    /\ ~HasMain(Programs[prog])
    /\ \E i, j \in 1..Len(Programs[prog]) :
           /\ Programs[prog][i].kind = "Function"
           /\ Programs[prog][j].kind = "Statement"
    /\ ~ir.ok /\ ~elf.ok

LabelIndices(instrs) == {i \in 1..Len(instrs) : instrs[i].tag = "Label"}
LabelDefs(instrs, id) == {i \in LabelIndices(instrs) : instrs[i].label = id}

\* the ids a Jump or a Branch of the sequence targets
JumpTargets(instrs) ==
    {instrs[i].label : i \in {j \in 1..Len(instrs) : instrs[j].tag = "Jump"}}
        \cup {instrs[i].true_label :
                  i \in {j \in 1..Len(instrs) : instrs[j].tag = "Branch"}}
        \cup {instrs[i].false_label :
                  i \in {j \in 1..Len(instrs) : instrs[j].tag = "Branch"}}

\* C5: in the IR generate produces, every LabelId a Jump or a Branch
\* targets is defined by exactly one Label instruction, no LabelId is
\* defined by two Label instructions, and no label minted by next_label
\* equals the reserved START_LABEL.
C5_LabelsDefinedOnce ==
    (phase = "Compiled" /\ ir.ok) =>
        /\ \A id \in JumpTargets(ir.value) :
               Cardinality(LabelDefs(ir.value, id)) = 1
        /\ Cardinality({ir.value[i].label : i \in LabelIndices(ir.value)})
               = Cardinality(LabelIndices(ir.value))
        /\ cg.label_counter <= START_LABEL

\* the little-endian 64-bit field at a zero-based offset of the image, when
\* it is below 2^31 (-1 when it is not)
ElfField64(bytes, offset) ==
    IF SubSeq(bytes, offset + 5, offset + 8) = <<0, 0, 0, 0>>
           /\ bytes[offset + 4] < 128
    THEN DecodeLE32(SubSeq(bytes, offset + 1, offset + 4))
    ELSE -1

\* C8: the image of a program compiled successfully is 120 header bytes
\* followed by the machine code verbatim, filesz and memsz are both
\* 120 + code length, and the entry address 0x400078 is the load address of
\* the offset recorded for Label(START_LABEL), that is, code offset 0.
C8_ElfLayout ==
    (phase = "Compiled" /\ elf.ok) =>
        /\ Len(elf.value) = 120 + Len(Unwrap(mc).value)
        /\ SubSeq(elf.value, 121, Len(elf.value)) = Unwrap(mc).value
        /\ ElfField64(elf.value, 96) = 120 + Len(Unwrap(mc).value)
        /\ ElfField64(elf.value, 104) = 120 + Len(Unwrap(mc).value)
        /\ ElfField64(elf.value, 24) = 4194424
        /\ MapHas(asm.label_positions, START_LABEL)
        /\ asm.label_positions[START_LABEL] = 0
        /\ ElfField64(elf.value, 24)
               = base_addr + ElfHeaderSize + asm.label_positions[START_LABEL]

\* instructions i..j run one after the other: no label, jump, branch or
\* return among them
StraightLine(instrs, i, j) ==
    \A n \in i..j : instrs[n].tag \notin {"Label", "Jump", "Branch", "Return"}

\* v is written at i, the Call is at k, and v is next read at j with no
\* write of v in between, in straight-line code
LiveAcrossCall(instrs, v, i, k, j) ==
    /\ i < k /\ k < j
    /\ instrs[k].tag = "Call"
    /\ v \in InstrWrites(instrs[i])
    /\ v \in InstrReads(instrs[j])
    /\ \A n \in (i + 1)..(j - 1) : v \notin InstrWrites(instrs[n])
    /\ StraightLine(instrs, i, j - 1)

\* the indices of the Call instructions
CallIndices(instrs) == {k \in 1..Len(instrs) : instrs[k].tag = "Call"}

\* the straight-line stretch around k: back to the last label and on to the
\* next label, jump, branch or return
StretchOf(instrs, k) ==
    {n \in 1..Len(instrs) :
        IF n <= k THEN StraightLine(instrs, n, k)
        ELSE StraightLine(instrs, k, n - 1)}

\* C10: in the IR lowered from a program, a VReg that is written before a
\* Call and read after that Call returns is saved by a Push before the Call
\* and restored by a Pop after it.
C10_LiveAcrossCallIsSaved ==
    (phase = "Compiled" /\ ir.ok) =>
        \A k \in CallIndices(ir.value) :
            \A i, j \in StretchOf(ir.value, k) :
                \A v \in InstrWrites(ir.value[i]) :
                    LiveAcrossCall(ir.value, v, i, k, j) =>
                        /\ \E p \in (i + 1)..(k - 1) :
                               /\ ir.value[p].tag = "Push"
                               /\ ir.value[p].src = v
                        /\ \E q \in (k + 1)..(j - 1) : ir.value[q].tag = "Pop"


-----------------------------------------------------------------------------
(* Which VRegs are written on every execution path that reaches an         *)
(* instruction.  The paths are those of the control flow of the sequence:  *)
(* an instruction continues at the next one, a Jump at its Label, a Branch *)
(* at either Label, nothing follows a Return, and a function is entered at *)
(* its Label with nothing written.                                         *)

\* the state of one pass: the VRegs written on every path to here, whether
\* the next instruction is reached from the one before it, for each LabelId
\* the VRegs written on every jump to it seen in this pass, and the reads of
\* a VReg that some path leaves unwritten, as pairs <<index, VReg>>
FlowStart == [cur |-> {}, live |-> TRUE, outs |-> EmptyMap, bad |-> {}]

\* the jump at the current instruction arrives at `label` with cur written
FlowJoin(outs, label, cur) ==
    MapInsert(outs, label, IF MapHas(outs, label) THEN outs[label] \cap cur ELSE cur)

\* what is written on every path into Label(label): `known` holds, for the
\* labels jumped to, the VRegs written on every jump (from the pass before)
FlowAtLabel(s, label, known, entries, top) ==
    IF label \in entries THEN {}
    ELSE (IF s.live THEN s.cur ELSE top)
             \cap (IF MapHas(known, label) THEN known[label] ELSE top)

FlowBad(s, instr, i) ==
    IF s.live THEN s.bad \cup {<<i, v>> : v \in InstrReads(instr) \ s.cur}
    ELSE s.bad

FlowStep(s, instr, i, known, entries, top) ==
    CASE instr.tag = "Label" ->
         [s EXCEPT !.cur = FlowAtLabel(s, instr.label, known, entries, top),
                   !.live = TRUE]
      [] instr.tag = "Jump" ->
         [s EXCEPT !.outs = IF s.live THEN FlowJoin(@, instr.label, s.cur) ELSE @,
                   !.live = FALSE]
      [] instr.tag = "Branch" ->
         [s EXCEPT !.outs = IF s.live
                            THEN FlowJoin(FlowJoin(@, instr.true_label, s.cur),
                                          instr.false_label, s.cur)
                            ELSE @,
                   !.bad = FlowBad(s, instr, i),
                   !.live = FALSE]
      [] instr.tag = "Return" ->
         [s EXCEPT !.bad = FlowBad(s, instr, i), !.live = FALSE]
      [] OTHER ->
         [s EXCEPT !.bad = FlowBad(s, instr, i),
                   !.cur = @ \cup InstrWrites(instr)]

\* one pass over instructions lo..hi
RECURSIVE FlowPass(_, _, _, _, _, _, _)
FlowPass(s, instrs, lo, hi, known, entries, top) ==
    IF lo > hi \/ s.live \notin BOOLEAN THEN s
    ELSE IF lo = hi THEN FlowStep(s, instrs[lo], lo, known, entries, top)
    ELSE FlowPass(FlowPass(s, instrs, lo, (lo + hi) \div 2, known, entries, top),
                  instrs, ((lo + hi) \div 2) + 1, hi, known, entries, top)

\* passes are repeated until the sets at the labels no longer change
RECURSIVE FlowFixpoint(_, _, _, _)
FlowFixpoint(instrs, known, entries, top) ==
    With(FlowPass(FlowStart, instrs, 1, Len(instrs), known, entries, top), LAMBDA s :
    IF s.outs = known THEN s.bad
    ELSE FlowFixpoint(instrs, s.outs, entries, top))

\* the reads, in the IR of a Codegen, of a VReg that some path to the read
\* leaves unwritten
UnwrittenReads(c) ==
    FlowFixpoint(c.instructions, EmptyMap,
                 {c.function_labels[i].id : i \in 1..Len(c.function_labels)},
                 0..(c.vreg_counter - 1))

\* C11: on every execution path through the IR lowered for a function, each
\* VReg an instruction reads was written by an instruction earlier on that
\* path, also when a variable is rebound inside one arm of an if and read
\* after the if.
C11_ReadsAreWritten ==
    (phase = "Compiled" /\ ir.ok) => UnwrittenReads(cg) = {}


-----------------------------------------------------------------------------
(* The displacements assemble leaves in the code *)

\* the Jump and Branch instructions of a sequence
JumpIndices(instrs) == {i \in 1..Len(instrs) : instrs[i].tag \in {"Jump", "Branch"}}

\* the labels instruction i jumps to, in the order of its rel32 fields
TargetsOf(instr) ==
    IF instr.tag = "Jump" THEN <<instr.label>>
    ELSE <<instr.true_label, instr.false_label>>

\* the signed 32-bit value at a zero-based offset of the code
Rel32Of(code, p) == DecodeLE32(SubSeq(code, p + 1, p + 4))

\* the zero-based offsets of the bytes of the rel32 fields in a list of
\* field offsets
PlaceholderBytes(fields) ==
    UNION {{fields[n] + k : k \in 0..3} : n \in 1..Len(fields)}

\* the rel32 fields of the Jump and Branch instructions, one list
RECURSIVE JumpFields(_, _, _)
JumpFields(instrs, fixups, i) ==
    IF i > Len(instrs) THEN <<>>
    ELSE (IF instrs[i].tag \in {"Jump", "Branch"} THEN fixups[i] ELSE <<>>)
             \o JumpFields(instrs, fixups, i + 1)

\* C12: when assemble succeeds, the rel32 of every Jump and of both jumps of
\* every Branch holds label_positions[L] - (p + 4), p being the offset of
\* the field, for targets before and after the jump alike, and the patch
\* pass changes no byte outside these four-byte fields.
C12_PatchedDisplacements ==
    [][(phase = "AsmEmit" /\ phase' = "AsmDone" /\ mc'.ok) =>
          /\ \A i \in JumpIndices(ir.value) :
                 /\ Len(asm.fixups[i]) = Len(TargetsOf(ir.value[i]))
                 /\ \A n \in 1..Len(asm.fixups[i]) :
                        Rel32Of(asm'.code, asm.fixups[i][n])
                            = asm'.label_positions[TargetsOf(ir.value[i])[n]]
                                  - (asm.fixups[i][n] + 4)
          /\ Len(PatchRefs(asm).code) = Len(asm.code)
          /\ \A b \in 1..Len(asm.code) :
                 PatchRefs(asm).code[b] /= asm.code[b] =>
                     (b - 1) \in PlaceholderBytes(JumpFields(ir.value, asm.fixups, 1))
      ]_vars

\* a Branch whose true label lies before it and whose false label after it
\* was assembled and patched
C12_Witness ==
    /\ phase = "AsmDone"
    /\ mc.ok
    /\ ir.value = <<ILabel(1), IBranch(0, 1, 2), ILabel(2)>>
    /\ Rel32Of(asm.code, asm.fixups[2][1]) < 0
    /\ Rel32Of(asm.code, asm.fixups[2][2]) = 0


-----------------------------------------------------------------------------
(* SpecWide: the arithmetic of assemble on positions and offsets near and  *)
(* beyond the 32-bit range.  One forward reference (fixup_pos, label at    *)
(* target_addr) goes through the patch loop, one relocation at fixup_pos   *)
(* for a symbol at target_addr through resolve_relocations, and one Load   *)
(* and one Store of a stack offset through emit_targetir_instruction.      *)

\* u64 code positions: 0, 1, 5, 2^31 - 4, 2^31 - 3, 2^31 + 4, 2^31 + 5, 2^32 + 16
WidePositions ==
    {I64Of(0), I64Of(1), I64Of(5), I64(32767, 65532), I64(32767, 65533),
     I64(32768, 4), I64(32768, 5), I64(65536, 16)}

\* i64 stack offsets: 8, -8, 2^31 - 1, 2^31, -2^31, -2^31 - 1, 2^32 + 8
WideOffsets ==
    {I64Of(8), I64Of(-8), I64(32767, 65535), I64(32768, 0), I64(-32768, 0),
     I64(-32769, 65535), I64(65536, 8)}

\* the allocator after collect_vregs_for_allocation saw VReg 0
WideRegalloc == allocate(RegisterAllocatorNew, 0).ra

InitWide ==
    /\ hist \in [fixup_pos : WidePositions \ {I64Of(0)},
                 target_addr : WidePositions,
                 offset : WideOffsets]
    /\ phase = "WideStart"
    /\ regalloc = WideRegalloc
    /\ asm = AssemblerNew
    /\ mc = None
    /\ prog = 0 /\ accepted = <<>> /\ cg = CodegenNew /\ ir = None /\ pos = 0
    /\ elf = None /\ cpu = None /\ runs = 0 /\ prev = None /\ iter = None

\* the body of the patch loop for a label that is defined: it writes the
\* bytes and has no error return
WidePatch ==
    /\ phase = "WideStart"
    /\ mc' = Ok(PatchDisplacement(hist.fixup_pos, hist.target_addr))
    /\ phase' = "WidePatched"
    /\ UNCHANGED <<prog, accepted, cg, ir, asm, regalloc, pos, elf, cpu, runs, prev, iter, hist>>

\* the body of the loop of resolve_relocations for a symbol that is defined
WideResolve ==
    /\ phase = "WideStart"
    /\ mc' = ResolveDisplacement(hist.fixup_pos, hist.target_addr)
    /\ phase' = "WideResolved"
    /\ UNCHANGED <<prog, accepted, cg, ir, asm, regalloc, pos, elf, cpu, runs, prev, iter, hist>>

\* emit_targetir_instruction on one instruction, from an empty Assembler
WideEmit(instr) ==
    /\ \E a \in {emit_targetir_instruction(AssemblerNew, regalloc, instr)} :
           /\ asm' = a
           /\ mc' = IF a.err /= "" THEN Err(a.err) ELSE Ok(a.code)
    /\ UNCHANGED <<prog, accepted, cg, ir, regalloc, pos, elf, cpu, runs, prev, iter, hist>>

\* a Load of the offset
WideLoad ==
    /\ phase = "WideStart"
    /\ WideEmit(ILoad(0, hist.offset))
    /\ phase' = "WideLoaded"

\* a Store of the offset
WideStore ==
    /\ phase = "WideStart"
    /\ WideEmit(IStore(0, hist.offset))
    /\ phase' = "WideStored"

NextWide ==
    \/ WidePatch
    \/ WideResolve
    \/ WideLoad
    \/ WideStore

SpecWide == InitWide /\ [][NextWide]_vars

\* C13: for a Jump or Branch fix-up whose displacement
\* label_positions[L] - (p + 4) lies outside the signed 32-bit range,
\* assemble fails with an out-of-range error and returns no code; it never
\* writes a truncated displacement.
C13_PatchRangeChecked ==
    phase = "WidePatched" =>
        IF FitsI32(RelativeAddr(hist.fixup_pos, hist.target_addr))
        THEN mc.ok
        ELSE ~mc.ok /\ mc.value = <<>>


\* the LabelId the function-label map of the Codegen records for a name
FunctionLabelOf(function_labels, name) ==
    function_labels[CHOOSE i \in 1..Len(function_labels) :
                        function_labels[i].name = name].id

\* the code offset a rel32 field at offset p transfers control to
Rel32Target(code, p) == p + 4 + Rel32Of(code, p)

\* C14: after a successful compile the rel32 of every Call targets the
\* offset of the Label whose id the function-label map records for the
\* called name, whatever the functions are named (label_N and _start
\* included).
C14_CallsReachTheirFunction ==
    (phase = "Compiled" /\ elf.ok) =>
        \A i \in CallIndices(ir.value) :
            /\ Len(asm.fixups[i]) = 1
            /\ Rel32Target(asm.code, asm.fixups[i][1])
                   = asm.label_positions[FunctionLabelOf(cg.function_labels,
                                                         ir.value[i].function)]


\* some Jump or Branch of the sequence targets a LabelId that no Label
\* instruction of the sequence defines
HasUndefinedLabel(instrs) ==
    \E id \in JumpTargets(instrs) : LabelDefs(instrs, id) = {}

\* some Call of the sequence names a function the symbol table has no
\* entry for
HasUndefinedSymbol(instrs, symbol_table) ==
    \E i \in CallIndices(instrs) : ~MapHas(symbol_table, instrs[i].function)

\* C15: assemble never returns code with an unresolved placeholder: when a
\* Jump or Branch targets a LabelId no Label instruction defined, or a Call
\* names a function without a symbol-table entry, assemble returns an error
\* (undefined label, undefined symbol) and no bytes.
C15_NoUnresolvedPlaceholder ==
    [][phase' = "AsmDone" =>
          /\ (HasUndefinedLabel(ir.value)
                  \/ HasUndefinedSymbol(ir.value, asm'.symbol_table))
                 => ~mc'.ok /\ mc'.value = <<>>
          \* the loop over the instructions ended without an error
          /\ (asm.err = "" /\ HasUndefinedLabel(ir.value))
                 => mc' = Err("Undefined label")
          /\ (asm.err = "" /\ ~HasUndefinedLabel(ir.value)
                  /\ HasUndefinedSymbol(ir.value, asm'.symbol_table))
                 => mc' = Err("Undefined symbol")
      ]_vars

\* every instruction was emitted; the sequence holds a Jump whose label is
\* defined, patched before the relocation of a Call failed on its symbol
C15_Witness ==
    /\ phase = "AsmDone"
    /\ pos > Len(ir.value)
    /\ \E i \in JumpIndices(ir.value) : ir.value[i].tag = "Jump"
    /\ ~HasUndefinedLabel(ir.value)
    /\ HasUndefinedSymbol(ir.value, asm.symbol_table)
    /\ mc = Err("Undefined symbol")


\* the instruction the loop of assemble handled last is a Call
LastHandledIsCall == pos >= 2 /\ pos - 1 <= Len(ir.value) /\ ir.value[pos - 1].tag = "Call"

\* C16: a Call with more than 4 arguments makes assemble fail with the
\* too-many-arguments error, and a Call with 0 to 4 arguments never fails
\* for that reason.
C16_CallArgumentLimit ==
    phase \in AsmPhases =>
        /\ LastHandledIsCall =>
               (Len(ir.value[pos - 1].args) > 4 <=> asm.err = TooManyArguments)
        /\ (asm.err = TooManyArguments \/ mc = Err(TooManyArguments)) =>
               /\ LastHandledIsCall
               /\ Len(ir.value[pos - 1].args) > 4
        /\ (phase = "AsmDone" /\ LastHandledIsCall /\ Len(ir.value[pos - 1].args) > 4)
               => mc = Err(TooManyArguments)
        /\ (phase = "AsmDone" /\ mc.ok) =>
               \A i \in CallIndices(ir.value) : Len(ir.value[i].args) <= 4

\* a Call of four arguments was emitted, the Call of five after it refused
C16_Witness ==
    /\ phase = "AsmDone"
    /\ pos = 3
    /\ ir.value[1].tag = "Call" /\ Len(ir.value[1].args) = 4
    /\ ir.value[2].tag = "Call" /\ Len(ir.value[2].args) = 5
    /\ Len(asm.relocations) = 1
    /\ mc = Err(TooManyArguments)


-----------------------------------------------------------------------------
(* Where a program holds a division *)

RECURSIVE ExprHasDivision(_)
RECURSIVE StatementsHaveDivision(_, _)

BlockHasDivision(block) ==
    \/ StatementsHaveDivision(block.statements, 1)
    \/ IsSome(block.final_expr) /\ ExprHasDivision(Unwrap(block.final_expr))

StatementHasDivision(stmt) ==
    ExprHasDivision(IF stmt.kind = "Expression" THEN stmt.expression ELSE stmt.value)

StatementsHaveDivision(stmts, i) ==
    i <= Len(stmts)
        /\ (StatementHasDivision(stmts[i]) \/ StatementsHaveDivision(stmts, i + 1))

ExprHasDivision(expr) ==
    CASE expr.kind \in {"Literal", "Identifier"} -> FALSE
      [] expr.kind = "Binary" ->
         \/ expr.operator = "Slash"
         \/ ExprHasDivision(expr.left)
         \/ ExprHasDivision(expr.right)
      [] expr.kind = "Call" -> \E i \in 1..Len(expr.args) : ExprHasDivision(expr.args[i])
      [] expr.kind = "If" ->
         \/ ExprHasDivision(expr.condition)
         \/ BlockHasDivision(expr.then_block)
         \/ /\ IsSome(expr.else_clause)
            /\ IF Unwrap(expr.else_clause).body = "Block"
               THEN BlockHasDivision(Unwrap(expr.else_clause).block)
               ELSE ExprHasDivision(Unwrap(expr.else_clause).nested)
      [] expr.kind = "While" ->
         ExprHasDivision(expr.condition) \/ BlockHasDivision(expr.body)

\* the items of a program that hold a division
ItemsWithDivision(items) ==
    {i \in 1..Len(items) :
        IF items[i].kind = "Function" THEN BlockHasDivision(items[i].body)
        ELSE StatementHasDivision(items[i].stmt)}

DivisionMessage == "Division not yet implemented in TargetIR backend"

\* C17: division is never encoded: a `/` is lowered to BinaryOp Div without
\* error, assemble fails on the BinaryOp Div with the unsupported-operation
\* error, and compile_to_executable returns an error and no ELF for every
\* program that contains a division.
C17_DivisionIsRefused ==
    (phase = "Compiled" /\ ItemsWithDivision(Programs[prog]) /= {}) =>
        /\ ~elf.ok /\ elf.value = <<>>
        /\ ir.ok =>
               /\ \E i \in 1..Len(ir.value) :
                      ir.value[i].tag = "BinaryOp" /\ ir.value[i].op = "Div"
               /\ mc = Some(Err(DivisionMessage))


\* the undefined-variable errors of the lowering (Identifier arm, Assign arm)
UndefinedVariableErrors == {"Undefined variable", "Undefined variable in assignment"}

\* C18: for a program that analyze_cst accepts, top-level let statements
\* included, Codegen::generate never fails with an undefined-variable error.
C18_UndefinedVariableIsDefensive ==
    (phase = "Compiled" /\ accepted = <<TRUE>>) =>
        /\ cg.err \notin UndefinedVariableErrors
        /\ ir.err \notin UndefinedVariableErrors


\* C19: a Load or a Store whose stack offset does not fit the 32-bit
\* displacement of its encoding makes assemble fail with a
\* stack-offset-out-of-range error; the offset is never truncated into the
\* displacement bytes.
C19_StackOffsetRangeChecked ==
    phase \in {"WideLoaded", "WideStored"} =>
        IF FitsI32(hist.offset)
        THEN mc.ok /\ SubSeq(mc.value, 5, 8) = AsI32Bytes(hist.offset)
        ELSE ~mc.ok /\ mc.value = <<>>


\* the ids generate_function minted for the functions
FunctionLabelIds(function_labels) ==
    {function_labels[i].id : i \in 1..Len(function_labels)}

\* where the functions start in the IR: the Label instructions of
\* generate_function (the Label at index 1 is the one of emit_prologue)
LabelsAmong(instrs, ids) ==
    {i \in LabelIndices(instrs) \ {1} : instrs[i].label \in ids}

FunctionStarts(instrs, function_labels) ==
    LabelsAmong(instrs, FunctionLabelIds(function_labels))

ReturnIndices(instrs) == {i \in 1..Len(instrs) : instrs[i].tag = "Return"}

\* the functions start at `starts` and the Returns are at `returns`: every
\* start but the first follows a Return, the sequence ends with a Return,
\* and every Return ends a function
EndWithReturn(instrs, starts, returns) ==
    /\ starts /= {}
    /\ Len(instrs) \in returns
    /\ \A i \in starts : (i - 1) \in returns \/ (\A j \in starts : i <= j)
    /\ \A r \in returns : r = Len(instrs) \/ (r + 1) \in starts
    /\ Cardinality(returns) = Cardinality(starts)

\* C20: the IR of each function is its Label, its body and exactly one
\* Return, which is its last instruction: the instruction before every
\* function Label but the first is a Return, the last instruction of the
\* sequence is a Return, and no Return occurs anywhere else.
C20_FunctionsEndWithReturn ==
    (phase = "Compiled" /\ ir.ok) =>
        EndWithReturn(ir.value, FunctionStarts(ir.value, cg.function_labels),
                      ReturnIndices(ir.value))

\* two functions were lowered, one of them with an if whose arms hold a
\* call and a spill
C20_Witness ==
    /\ phase = "Compiled"
    /\ ir.ok
    /\ Cardinality(FunctionStarts(ir.value, cg.function_labels)) = 2
    /\ \E i, j \in 1..Len(ir.value) :
           ir.value[i].tag = "Branch" /\ ir.value[j].tag = "Push"
    /\ Cardinality(ReturnIndices(ir.value)) = 2

-----------------------------------------------------------------------------
(* SpecEmit: emit_targetir_instruction on one instruction, under a register *)
(* allocation that allocate() produces, and then the emitted bytes run on   *)
(* the machine with the operand VRegs' values in their registers.           *)

\* the values an operand VReg holds when the instruction starts
EmitValues == {-1, 0, 1}

EmitOperands(v) == {VRegV(v), Immediate(7), PhysicalReg("Rax")}

\* every BinaryOp over the three operand kinds, and Calls of 1 to 4 arguments
EmitAlphabet ==
    {IBinaryOp(0, l, r, op) : l \in EmitOperands(1), r \in EmitOperands(2), op \in BinOps}
        \cup {ICall(None, "f", SubSeq(<<0, 1, 2, 3>>, 1, n)) : n \in 1..4}

Elements(s) == {s[i] : i \in 1..Len(s)}

\* the VRegs whose value the instruction reads
EmitOperandVRegs(instr) ==
    IF instr.tag = "Call" THEN Elements(instr.args)
    ELSE Elements(ValueVRegs(instr.lhs)) \cup Elements(ValueVRegs(instr.rhs))

\* the values the operands start with: any for a BinaryOp, 11 + i for the
\* i-th argument of a Call
EmitOperandValues(instr) ==
    IF instr.tag = "Call" THEN {[v \in EmitOperandVRegs(instr) |-> 11 + v]}
    ELSE [EmitOperandVRegs(instr) -> EmitValues]

\* an order of first uses in which VReg v is the (5 * v + slot[v] + 1)-th
\* VReg that allocate() sees; the VRegs around it are others (100 + j)
FirstUses(slot) ==
    [j \in 1..20 |->
        IF \E v \in DOMAIN slot : 5 * v + slot[v] + 1 = j
        THEN CHOOSE v \in DOMAIN slot : 5 * v + slot[v] + 1 = j
        ELSE 100 + j]

\* allocate() called for order[i], order[i + 1], ...
RECURSIVE AllocateAll(_, _, _)
AllocateAll(ra, order, i) ==
    IF i > Len(order) THEN ra
    ELSE AllocateAll(allocate(ra, order[i]).ra, order, i + 1)

InitEmit ==
    /\ \E instr \in EmitAlphabet :
       \E slot \in [Elements(CollectedVRegs(instr)) -> 0..(Len(available_registers) - 1)] :
       \E value \in EmitOperandValues(instr) :
           /\ ir = Ok(<<instr>>)
           /\ regalloc = AllocateAll(RegisterAllocatorNew, FirstUses(slot), 1)
           /\ hist = [value |-> value]
           \* two operands in one register hold one value
           /\ \A u, v \in DOMAIN value :
                  regalloc.allocation[u] = regalloc.allocation[v] => value[u] = value[v]
    /\ phase = "EmitStart"
    /\ asm = AssemblerNew
    /\ mc = None
    /\ prog = 0 /\ accepted = <<>> /\ cg = CodegenNew /\ pos = 0
    /\ elf = None /\ cpu = None /\ runs = 0 /\ prev = None /\ iter = None

\* the registers when the instruction starts: an operand's register holds
\* the operand's value, every other register something else
EmitRegs ==
    [r \in CpuRegisters |->
        IF \E v \in DOMAIN hist.value : regalloc.allocation[v] = r
        THEN hist.value[CHOOSE v \in DOMAIN hist.value : regalloc.allocation[v] = r]
        ELSE 74565]

\* emit_targetir_instruction on the instruction, from an empty Assembler
EmitInstruction ==
    /\ phase = "EmitStart"
    /\ \E a \in {emit_targetir_instruction(AssemblerNew, regalloc, ir.value[1])} :
           /\ asm' = a
           /\ mc' = IF a.err /= "" THEN Err(a.err) ELSE Ok(a.code)
    /\ cpu' = Some([CpuStart EXCEPT !.regs = EmitRegs])
    /\ phase' = "Emitted"
    /\ UNCHANGED <<prog, accepted, cg, ir, regalloc, pos, elf, runs, prev, iter, hist>>

\* the machine is at the end of the emitted bytes or at their call
EmitAtEnd ==
    \/ Unwrap(cpu).pc >= Len(asm.code)
    \/ ByteAt(asm.code, Unwrap(cpu).pc, 0) = 232

\* one instruction of the emitted bytes
EmitRun ==
    /\ phase = "Emitted"
    /\ asm.err = ""
    /\ Unwrap(cpu).status = "running"
    /\ ~EmitAtEnd
    /\ cpu' = Some(CpuStep(asm.code, Unwrap(cpu)))
    /\ UNCHANGED <<prog, phase, accepted, cg, ir, asm, regalloc, pos, mc, elf, runs, prev, iter, hist>>

NextEmit ==
    \/ EmitInstruction
    \/ EmitRun

SpecEmit == InitEmit /\ [][NextEmit]_vars

\* C21: emitting a BinaryOp whose left operand is a PhysicalReg fails, for
\* every operator and every right operand, with the message "PhysicalReg not
\* supported in binary operations", and the code buffer gets no byte.
C21_PhysicalRegLhsIsRefused ==
    (/\ phase = "Emitted"
     /\ ir.value[1].tag = "BinaryOp"
     /\ ir.value[1].lhs.kind = "PhysicalReg") =>
        /\ asm.err = "PhysicalReg not supported in binary operations"
        /\ mc = Err("PhysicalReg not supported in binary operations")
        /\ asm.code = AssemblerNew.code

C21_Witness ==
    /\ phase = "Emitted"
    /\ ir.value[1].tag = "BinaryOp"
    /\ ir.value[1].lhs.kind = "PhysicalReg"
    /\ ir.value[1].rhs.kind = "Immediate"
    /\ ir.value[1].op = "Le"
    /\ asm.err = "PhysicalReg not supported in binary operations"
    /\ asm.code = <<>>

\* both operands of the BinaryOp are VRegs, it was emitted and its bytes ran
EmitRanComparison ==
    /\ phase = "Emitted"
    /\ ir.value[1].tag = "BinaryOp"
    /\ ir.value[1].op \in {"Le", "Gt"}
    /\ ir.value[1].lhs.kind = "VReg"
    /\ ir.value[1].rhs.kind = "VReg"
    /\ asm.err = ""
    /\ Unwrap(cpu).pc = Len(asm.code)

\* C29: after the cmp / setcc al / movzx sequence of a BinaryOp Le (Gt) the
\* destination register holds exactly 1 when lhs <= rhs (lhs > rhs) as
\* signed integers and exactly 0 otherwise, for all operand values and for
\* every register assignment the allocator can produce.
C29_ComparisonResult ==
    EmitRanComparison =>
        LET instr == ir.value[1]
            l == hist.value[instr.lhs.vreg]
            r == hist.value[instr.rhs.vreg]
            holds == IF instr.op = "Le" THEN l <= r ELSE l > r
        IN  /\ Unwrap(cpu).status = "running"
            /\ Unwrap(cpu).regs[regalloc.allocation[instr.dest]] = IF holds THEN 1 ELSE 0

\* the Call was emitted and the machine is at its call instruction
EmitAtCall ==
    /\ phase = "Emitted"
    /\ ir.value[1].tag = "Call"
    /\ asm.err = ""
    /\ ByteAt(asm.code, Unwrap(cpu).pc, 0) = 232

\* C30: for a Call with 1 to 4 arguments, whatever registers the allocator
\* gave the argument VRegs, when the call instruction executes the i-th
\* register of [RDI, RSI, RDX, RCX] holds the value of args[i] for every i.
C30_ArgumentsArrive ==
    EmitAtCall =>
        \A i \in 1..Len(ir.value[1].args) :
            Unwrap(cpu).regs[arg_registers[i]] = hist.value[ir.value[1].args[i]]

-----------------------------------------------------------------------------
(* The expressions of a program, and where the IR spills around a call *)

RECURSIVE SubExprs(_)
RECURSIVE StatementsExprs(_, _)
RECURSIVE ArgsExprs(_, _)

\* every expression node below a block, in source order
BlockExprs(block) ==
    StatementsExprs(block.statements, 1)
        \o (IF IsSome(block.final_expr) THEN SubExprs(Unwrap(block.final_expr)) ELSE <<>>)

StatementsExprs(stmts, i) ==
    IF i > Len(stmts) THEN <<>>
    ELSE SubExprs(IF stmts[i].kind = "Expression" THEN stmts[i].expression
                  ELSE stmts[i].value)
             \o StatementsExprs(stmts, i + 1)

ArgsExprs(args, i) ==
    IF i > Len(args) THEN <<>> ELSE SubExprs(args[i]) \o ArgsExprs(args, i + 1)

\* the expression node and every expression node below it
SubExprs(expr) ==
    <<expr>> \o
    CASE expr.kind \in {"Literal", "Identifier"} -> <<>>
      [] expr.kind = "Binary" -> SubExprs(expr.left) \o SubExprs(expr.right)
      [] expr.kind = "Call" -> ArgsExprs(expr.args, 1)
      [] expr.kind = "If" ->
         SubExprs(expr.condition) \o BlockExprs(expr.then_block)
             \o (IF ~IsSome(expr.else_clause) THEN <<>>
                 ELSE IF Unwrap(expr.else_clause).body = "Block"
                 THEN BlockExprs(Unwrap(expr.else_clause).block)
                 ELSE SubExprs(Unwrap(expr.else_clause).nested))
      [] expr.kind = "While" -> SubExprs(expr.condition) \o BlockExprs(expr.body)

\* the indices of the items generate lowers, in the order it lowers them:
\* the first main, then every function that is not main in source order
LoweredOrder(items) ==
    <<FirstMain(items)>>
        \o SelectSeq([i \in 1..Len(items) |-> i],
                     LAMBDA i : items[i].kind = "Function" /\ items[i].name /= "main")

\* the expression nodes of the functions items[order[lo]], ...,
\* items[order[hi]], in that order
RECURSIVE LoweredExprs(_, _, _, _)
LoweredExprs(items, order, lo, hi) ==
    IF lo > hi THEN <<>>
    ELSE IF lo = hi THEN BlockExprs(items[order[lo]].body)
    ELSE LoweredExprs(items, order, lo, (lo + hi) \div 2)
             \o LoweredExprs(items, order, ((lo + hi) \div 2) + 1, hi)

\* every expression node of the functions that are lowered
ProgramExprs(items) ==
    LoweredExprs(items, LoweredOrder(items), 1, Len(LoweredOrder(items)))

\* the binary expressions whose right operand has a call node below it
SpillSites(nodes) ==
    {k \in 1..Len(nodes) :
        /\ nodes[k].kind = "Binary"
        /\ \E j \in 1..Len(SubExprs(nodes[k].right)) :
               SubExprs(nodes[k].right)[j].kind = "Call"}

TagIndices(instrs, tag) == {k \in 1..Len(instrs) : instrs[k].tag = tag}

\* the Pop at q closes the Push at p: as many Pushes as Pops between them
PopCloses(instrs, pushes, pops, p, q) ==
    /\ p < q
    /\ Cardinality({k \in pushes : p < k /\ k < q})
           = Cardinality({k \in pops : p < k /\ k < q})
    /\ \A q2 \in pops :
           (p < q2 /\ q2 < q) =>
               Cardinality({k \in pushes : p < k /\ k < q2})
                   >= Cardinality({k \in pops : p < k /\ k <= q2})

\* the Push at p, the Pop at q and the BinaryOp after it enclose the
\* instructions of a right operand that calls: everything before the Push
\* uses older VRegs than the ones written between Push and Pop, and the Pop
\* writes a newer one
SpillEncloses(instrs, p, q) ==
    /\ q < Len(instrs)
    /\ instrs[q + 1].tag = "BinaryOp"
    /\ instrs[q + 1].lhs = VRegV(instrs[q].dest)
    /\ instrs[q + 1].rhs.kind = "VReg"
    /\ \E k \in (p + 1)..(q - 1) : instrs[q + 1].rhs.vreg \in InstrWrites(instrs[k])
    /\ \E k \in (p + 1)..(q - 1) : instrs[k].tag = "Call"
    /\ \E k \in 1..(p - 1) : instrs[p].src \in InstrWrites(instrs[k])
    /\ \A k \in (p + 1)..(q - 1) : \A w \in InstrWrites(instrs[k]) :
           /\ w < instrs[q].dest
           /\ \A j \in 1..p : \A u \in InstrReads(instrs[j]) \cup InstrWrites(instrs[j]) :
                  u < w
    /\ \A j \in 1..(q - 1) :
           instrs[q].dest \notin InstrReads(instrs[j]) \cup InstrWrites(instrs[j])

\* the shape of the IR around its Pushes and Pops, for the expression nodes
\* of the program
SpillShape(instrs, pushes, pops, nodes) ==
    /\ Cardinality(pushes) = Cardinality(SpillSites(nodes))
    /\ Cardinality(pops) = Cardinality(pushes)
    /\ Cardinality(TagIndices(instrs, "BinaryOp"))
           = Cardinality({k \in 1..Len(nodes) : nodes[k].kind = "Binary"})
    /\ \A p \in pushes : \E q \in pops :
           PopCloses(instrs, pushes, pops, p, q) /\ SpillEncloses(instrs, p, q)
    /\ \A q \in pops : \E p \in pushes : PopCloses(instrs, pushes, pops, p, q)

\* C22: for every binary expression whose right operand subtree contains a
\* call, the IR has Push{lhs} after the instructions of the left operand and
\* before those of the right one, a Pop into a fresh VReg after them and
\* directly before the BinaryOp, whose left operand is the popped VReg; a
\* binary expression without a call in its right operand has no Push or Pop.
C22_SpillAroundCalls ==
    (phase = "Compiled" /\ ir.ok) =>
        SpillShape(ir.value, TagIndices(ir.value, "Push"), TagIndices(ir.value, "Pop"),
                   ProgramExprs(Programs[prog]))

C22_Witness ==
    /\ phase = "Compiled"
    /\ ir.ok
    /\ Programs[prog] = ProgSpillNested
    /\ Cardinality(TagIndices(ir.value, "Push")) = 3
    /\ Cardinality(TagIndices(ir.value, "BinaryOp")) = 5
    /\ ir.value[8].tag = "Push" /\ ir.value[22].tag = "Pop"

-----------------------------------------------------------------------------
(* The order in which the functions of a program are lowered *)

\* generate_function on items[order[lo]], ..., items[order[hi]] in turn
RECURSIVE LowerInOrder(_, _, _, _, _)
LowerInOrder(c, items, order, lo, hi) ==
    IF lo > hi \/ c.err /= "" THEN c
    ELSE IF lo = hi THEN generate_function(c, items[order[lo]])
    ELSE LowerInOrder(LowerInOrder(c, items, order, lo, (lo + hi) \div 2),
                      items, order, ((lo + hi) \div 2) + 1, hi)

FunctionOrder(instrs, items, order) ==
    /\ SubSeq(instrs, 1, 5) = emit_prologue(CodegenNew).instructions
    /\ instrs[6] = ILabel(0)
    /\ instrs = LowerInOrder(emit_prologue(CodegenNew), items, order, 1, Len(order)).instructions
    /\ Cardinality(TagIndices(instrs, "Return")) = Len(order)

\* C27: whatever the position of main in the source, the IR is the prologue,
\* then main's Label (LabelId 0) and body, then every other function in
\* source order, each lowered exactly once; of several definitions of main
\* only the first is lowered.
C27_MainFirstThenSourceOrder ==
    (phase = "Compiled" /\ ir.ok) =>
        FunctionOrder(ir.value, Programs[prog], LoweredOrder(Programs[prog]))

C27_Witness ==
    /\ phase = "Compiled"
    /\ ir.ok
    /\ Programs[prog] = ProgTwoMains
    /\ LoweredOrder(Programs[prog]) = <<2, 1, 3>>
    /\ ir.value[6] = ILabel(0)
    /\ ir.value[7].tag = "Call" /\ ir.value[7].function = "f"
    /\ Cardinality(TagIndices(ir.value, "Return")) = 3

-----------------------------------------------------------------------------
(* The shell around main *)

\* the machine is about to execute the syscall instruction
AtSyscall ==
    /\ phase = "Running"
    /\ Unwrap(cpu).status = "running"
    /\ ByteAt(ElfCode(elf.value), Unwrap(cpu).pc, 0) = 15
    /\ ByteAt(ElfCode(elf.value), Unwrap(cpu).pc, 1) = 5

\* C28: the shell exits with main's result: the IR starts with
\* Label(START_LABEL), Call main and, after two Copies, a Syscall; and when
\* the syscall instruction executes RAX holds 60 and RDI the value that RAX
\* held at the ret of main, whatever main and its callees overwrote.
C28_ShellExitsWithMainResult ==
    /\ (phase \in {"Compiled", "Running"} /\ ir.ok) =>
           /\ ir.value[1] = ILabel(START_LABEL)
           /\ ir.value[2].tag = "Call" /\ ir.value[2].function = "main"
           /\ ir.value[5].tag = "Syscall"
    /\ AtSyscall =>
           /\ Unwrap(cpu).regs["Rax"] = 60
           /\ IsSome(hist.main_rax)
           /\ Unwrap(cpu).regs["Rdi"] = Unwrap(hist.main_rax)

C28_Witness ==
    /\ AtSyscall
    /\ Programs[prog] = ProgFactorial
    /\ hist.main_rax = Some(120)
    /\ Unwrap(cpu).regs["Rdi"] = 120
    /\ Unwrap(cpu).regs["Rax"] = 60

-----------------------------------------------------------------------------
(* The stack while the compiled program runs *)

\* the code offsets at which the functions of the IR start: the instruction
\* after the prologue and the instruction after every Return but the last
FunctionOffsets(instrs, instr_start) ==
    {instr_start[k] : k \in {6} \cup {r + 1 : r \in TagIndices(instrs, "Return") \ {Len(instrs)}}}

\* the start of the function that the code at offset pc belongs to
FunctionOf(offsets, pc) == CHOOSE o \in offsets : o <= pc /\ \A o2 \in offsets : o2 <= pc => o2 <= o

\* the machine is about to execute a ret: the top slot was written by a call
\* that entered the function the ret belongs to, and still holds that call's
\* return address
RetTakesReturnAddress(code, c, writers, instrs, instr_start) ==
    /\ writers /= <<>>
    /\ ByteAt(code, writers[Len(writers)], 0) = 232
    /\ c.stack[Len(c.stack)] = writers[Len(writers)] + 5
    /\ Rel32Target(code, writers[Len(writers)] + 1)
           = FunctionOf(FunctionOffsets(instrs, instr_start), c.pc)

\* the machine is about to execute a pop: the top slot was written by the
\* push of the Push instruction that this Pop closes
PopTakesItsPush(code, c, writers, instrs, instr_start) ==
    /\ writers /= <<>>
    /\ \E p \in TagIndices(instrs, "Push") : \E q \in TagIndices(instrs, "Pop") :
           /\ instr_start[p] = writers[Len(writers)]
           /\ instr_start[q] = c.pc
           /\ PopCloses(instrs, TagIndices(instrs, "Push"), TagIndices(instrs, "Pop"), p, q)

\* C23: stack discipline of the lowered IR in any execution, recursion
\* included: every Pop retrieves the value pushed by its matching Push of
\* the same function activation, and at every Return the stack is as deep as
\* at the function's entry, so that ret consumes the return address.
C23_StackDiscipline ==
    (phase = "Running" /\ Unwrap(cpu).status = "running") =>
        /\ Len(hist.writers) = Len(Unwrap(cpu).stack)
        /\ ByteAt(ElfCode(elf.value), Unwrap(cpu).pc, 0) = 195 =>
               RetTakesReturnAddress(ElfCode(elf.value), Unwrap(cpu), hist.writers,
                                     ir.value, asm.instr_start)
        /\ ByteAt(ElfCode(elf.value), Unwrap(cpu).pc, 0) \in 88..95 =>
               PopTakesItsPush(ElfCode(elf.value), Unwrap(cpu), hist.writers,
                               ir.value, asm.instr_start)

\* factorial(2) has returned into factorial(3): four return addresses and
\* the saved operands 5, 4 and 3 are on the stack, and the pop is next
C23_Witness ==
    /\ phase = "Running"
    /\ Programs[prog] = ProgFactorial
    /\ Unwrap(cpu).status = "running"
    /\ ByteAt(ElfCode(elf.value), Unwrap(cpu).pc, 0) \in 88..95
    /\ Len(Unwrap(cpu).stack) = 7
    /\ Unwrap(cpu).stack[7] = 3
    /\ Unwrap(cpu).stack[5] = 4

-----------------------------------------------------------------------------
(* The operands of a BinaryOp when it executes *)

\* no function that is lowered holds a call
CallFree(items) ==
    \A k \in 1..Len(ProgramExprs(items)) : ProgramExprs(items)[k].kind /= "Call"

\* the machine is at the first byte of the k-th instruction, a BinaryOp
AtBinaryOp(k) ==
    /\ phase = "Running"
    /\ Unwrap(cpu).status = "running"
    /\ ir.value[k].tag = "BinaryOp"
    /\ Unwrap(cpu).pc = asm.instr_start[k]

\* the register of the operand holds the value the VReg was last written with
OperandIntact(val) ==
    val.kind = "VReg" =>
        /\ MapHas(hist.vregs, val.vreg)
        /\ Unwrap(cpu).regs[regalloc.allocation[val.vreg]] = hist.vregs[val.vreg]

\* C24: in a call-free program, whatever the depth and shape of its
\* expression trees (if expressions as operands included), when a BinaryOp
\* executes the registers of its left and right operand VRegs still hold the
\* values those VRegs were last written with.
C24_OperandsIntact ==
    (phase = "Running" /\ CallFree(Programs[prog])) =>
        \A k \in 1..Len(ir.value) :
            AtBinaryOp(k) => OperandIntact(ir.value[k].lhs) /\ OperandIntact(ir.value[k].rhs)


\* ---- if expressions ----

\* the least index above `from` that holds Label(id), 0 when there is none
LabelAfter(instrs, from, id) ==
    IF \E k \in (from + 1)..Len(instrs) : instrs[k] = ILabel(id)
    THEN CHOOSE k \in (from + 1)..Len(instrs) :
             /\ instrs[k] = ILabel(id)
             /\ \A m \in (from + 1)..(k - 1) : instrs[m] /= ILabel(id)
    ELSE 0

\* the lowered if expressions: b is the index of the Branch, j the index of
\* the Label of the else arm, e the index of the end Label.  A Branch is
\* that of an if expression when the instruction before its false label is
\* a Jump forward (that of a while expression jumps back)
IfSiteAt(instrs, b, j) ==
    [b |-> b, j |-> j,
     e |-> IF j > b + 1 /\ instrs[j - 1].tag = "Jump"
           THEN LabelAfter(instrs, j, instrs[j - 1].label)
           ELSE 0]

IfSites(instrs) ==
    {s \in {IfSiteAt(instrs, b, LabelAfter(instrs, b, instrs[b].false_label)) :
                b \in TagIndices(instrs, "Branch")} : s.e /= 0}

\* the shape the If arm gives the instructions of an if expression: the
\* then Label follows the Branch, each arm ends in a Copy into the one
\* result VReg, the then arm's Copy is followed by the Jump to the end
\* Label, and nothing else between the Branch and the end Label writes the
\* result VReg
IfShape(instrs, s) ==
    /\ s.b + 1 < s.j - 2
    /\ s.j < s.e - 1
    /\ instrs[s.b + 1] = ILabel(instrs[s.b].true_label)
    /\ instrs[s.j - 2].tag = "Copy"
    /\ instrs[s.e - 1].tag = "Copy"
    /\ instrs[s.j - 2].dest = instrs[s.e - 1].dest
    /\ instrs[s.j - 2].src.kind = "VReg"
    /\ instrs[s.e - 1].src.kind = "VReg"
    /\ \A k \in ((s.b + 1)..(s.e - 1)) \ {s.j - 2, s.e - 1} :
           instrs[s.j - 2].dest \notin InstrWrites(instrs[k])

\* the site of the n-th if expression: result VRegs are handed out in the
\* order the if expressions are met
SiteOf(instrs, sites, n) ==
    CHOOSE s \in sites :
        Cardinality({t \in sites : instrs[t.e - 1].dest < instrs[s.e - 1].dest}) = n - 1

\* an arm without final expression, and an absent else clause, give a VReg
\* that was just set to 0; an else-if gives the result VReg of the nested if
ArmsOf(instrs, sites, s, node) ==
    /\ ~IsSome(node.then_block.final_expr)
           => instrs[s.j - 3] = ICopy(instrs[s.j - 2].src.vreg, Immediate(0))
    /\ \/ ~IsSome(node.else_clause)
       \/ /\ Unwrap(node.else_clause).body = "Block"
          /\ ~IsSome(Unwrap(node.else_clause).block.final_expr)
       => instrs[s.e - 2] = ICopy(instrs[s.e - 1].src.vreg, Immediate(0))
    /\ IsSome(node.else_clause) /\ Unwrap(node.else_clause).body = "If"
           => \E t \in sites : /\ t.e = s.e - 2
                               /\ instrs[t.e - 1].dest = instrs[s.e - 1].src.vreg

IfNodes(nodes) == SelectSeq(nodes, LAMBDA x : x.kind = "If")

IfLowering(instrs, sites, nodes) ==
    /\ Cardinality(sites) = Len(nodes)
    /\ \A s \in sites : IfShape(instrs, s)
    /\ \A n \in 1..Len(nodes) : ArmsOf(instrs, sites, SiteOf(instrs, sites, n), nodes[n])

\* the run at an if expression: the Branch goes to the then Label exactly
\* when the condition is not zero and to the else Label otherwise; after
\* the Copy of an arm the register of the result VReg holds the value of
\* that arm
IfRun(instrs, instr_start, allocation, c, h, s) ==
    /\ h.done = s.b =>
           \/ c.pc = instr_start[s.b + 1] /\ h.vregs[instrs[s.b].condition] /= 0
           \/ c.pc = instr_start[s.j] /\ h.vregs[instrs[s.b].condition] = 0
    /\ h.done = s.j - 2 =>
           /\ c.pc = instr_start[s.j - 1]
           /\ c.regs[allocation[instrs[s.j - 2].dest]]
                  = h.vregs[instrs[s.j - 2].src.vreg]
    /\ h.done = s.j - 1 =>
           /\ c.pc = instr_start[s.e]
           /\ c.regs[allocation[instrs[s.j - 2].dest]]
                  = h.vregs[instrs[s.j - 2].src.vreg]
    /\ h.done = s.e - 1 =>
           /\ c.pc = instr_start[s.e]
           /\ c.regs[allocation[instrs[s.e - 1].dest]]
                  = h.vregs[instrs[s.e - 1].src.vreg]

\* in a program without calls a VReg of the condition is not written while
\* an arm runs: the arm that ran is the one the condition chose
IfArmChosen(instrs, h, s) ==
    /\ h.done = s.j - 2 => h.vregs[instrs[s.b].condition] /= 0
    /\ h.done = s.e - 1 => h.vregs[instrs[s.b].condition] = 0

\* C25: every if expression is lowered to a Branch, a then arm and an else
\* arm that each end in one Copy into one shared result VReg, the then
\* arm's Copy being followed by the Jump to the end Label; an absent else
\* clause and an arm without final expression copy a VReg set to 0.  When
\* the program runs, the Branch enters the then arm exactly when the
\* condition is not zero, and after the Copy of the arm that ran the result
\* holds that arm's value
C25_IfCopiesOneArm ==
    /\ (phase = "Compiled" /\ ir.ok) =>
           IfLowering(ir.value, IfSites(ir.value), IfNodes(ProgramExprs(Programs[prog])))
    /\ (phase = "Running" /\ Unwrap(cpu).status = "running" /\ hist.left) =>
           \A s \in IfSites(ir.value) :
               /\ IfRun(ir.value, asm.instr_start, regalloc.allocation,
                        Unwrap(cpu), hist, s)
               /\ CallFree(Programs[prog]) => IfArmChosen(ir.value, hist, s)

\* `let b = if 0 { 5 };` has run its else arm: the condition was 0, the
\* arm is the Copy of a VReg just set to 0, and the result holds 0
C25_Witness ==
    /\ phase = "Running"
    /\ Programs[prog] = ProgElseIf
    /\ Unwrap(cpu).status = "running"
    /\ hist.left
    /\ Cardinality(IfSites(ir.value)) = 4
    /\ \E s \in IfSites(ir.value) :
           /\ hist.done = s.e - 1
           /\ ir.value[s.e - 2] = ICopy(ir.value[s.e - 1].src.vreg, Immediate(0))
           /\ ir.value[s.b - 1] = ICopy(ir.value[s.b].condition, Immediate(0))
           /\ hist.vregs[ir.value[s.b].condition] = 0
           /\ Unwrap(cpu).regs[regalloc.allocation[ir.value[s.e - 1].dest]] = 0

\* ---- while expressions ----

\* the greatest index below `to` that holds Label(id), 0 when there is none
LabelBefore(instrs, to, id) ==
    IF \E k \in 1..(to - 1) : instrs[k] = ILabel(id)
    THEN CHOOSE k \in 1..(to - 1) :
             /\ instrs[k] = ILabel(id)
             /\ \A m \in (k + 1)..(to - 1) : instrs[m] /= ILabel(id)
    ELSE 0

\* the lowered while expressions: h is the index of Label(loop_start), b
\* that of the Branch, x that of Label(loop_end); the instruction before
\* Label(loop_end) is the Jump back to Label(loop_start)
WhileSiteAt(instrs, b, x) ==
    [b |-> b, x |-> x,
     h |-> IF x > b + 1 /\ instrs[x - 1].tag = "Jump"
           THEN LabelBefore(instrs, b, instrs[x - 1].label)
           ELSE 0]

WhileSites(instrs) ==
    {w \in {WhileSiteAt(instrs, b, LabelAfter(instrs, b, instrs[b].false_label)) :
                b \in TagIndices(instrs, "Branch")} : w.h /= 0}

WhileNodes(nodes) == SelectSeq(nodes, LAMBDA x : x.kind = "While")

\* the site of the n-th while expression: the loop_start Labels are
\* emitted in the order the while expressions are met
WhileSiteOf(sites, n) ==
    CHOOSE w \in sites : Cardinality({t \in sites : t.h < w.h}) = n - 1

\* a while expression whose condition compares a variable and whose body is
\* one assignment to that variable
CountingLoop(node) ==
    /\ node.condition.kind = "Binary"
    /\ node.condition.left.kind = "Identifier"
    /\ Len(node.body.statements) = 1
    /\ node.body.statements
           = <<AssignS(node.condition.left.name, node.body.statements[1].value)>>
    /\ ~IsSome(node.body.final_expr)

\* the Jump back to loop_start of a counting loop has just executed: the
\* VReg the condition reads the variable from (the source of the Copy after
\* Label(loop_start)) holds the value of the assignment (the VReg written
\* by the last instruction of the body)
ConditionSeesAssignment(instrs, instr_start, allocation, c, h, w) ==
    (h.left /\ h.done = w.x - 1) =>
        /\ c.pc = instr_start[w.h]
        /\ instrs[w.h + 1].tag = "Copy"
        /\ instrs[w.h + 1].src.kind = "VReg"
        /\ \A a \in InstrWrites(instrs[w.x - 2]) :
               c.regs[allocation[instrs[w.h + 1].src.vreg]] = h.vregs[a]

\* the value of a while expression is a VReg set to 0 after Label(loop_end)
WhileValue(instrs, w) == instrs[w.x + 1].tag = "Copy" /\ instrs[w.x + 1].src = Immediate(0)

\* C26: in a while expression whose body assigns to the variable its
\* condition reads, the condition evaluated after the Jump back to
\* loop_start reads the value the body assigned in the iteration before;
\* the value of every while expression is 0
C26_WhileConditionSeesAssignment ==
    /\ (phase = "Compiled" /\ ir.ok) =>
           /\ Cardinality(WhileSites(ir.value))
                  = Len(WhileNodes(ProgramExprs(Programs[prog])))
           /\ \A w \in WhileSites(ir.value) : WhileValue(ir.value, w)
    /\ (phase = "Running" /\ Unwrap(cpu).status = "running" /\ hist.left) =>
           With(WhileNodes(ProgramExprs(Programs[prog])), LAMBDA nodes :
               \A n \in 1..Len(nodes) :
                   CountingLoop(nodes[n]) =>
                       ConditionSeesAssignment(ir.value, asm.instr_start,
                                               regalloc.allocation, Unwrap(cpu), hist,
                                               WhileSiteOf(WhileSites(ir.value), n)))
=============================================================================
